---- MODULE Spec2Model ----
(***************************************************************************)
(* A model of the agent harness of eag2-mcp-mac: the line protocol parser, *)
(* the tool catalog, the argument coercion, the response text extractors   *)
(* and the control loop of run_agent (src/src/client/talk2mcp.py).         *)
(*                                                                         *)
(* Spec and FairSpec are the runs of run_agent; UnitSpec applies the       *)
(* parser, the coercion and the schema extraction on their own.            *)
(* KeynoteSpec is the Keynote server (src/src/mcp_servers) answering any   *)
(* sequence of tool calls, GmailSpec the Gmail server (src/src/gmail_bonus)*)
(* answering send_email calls.                                             *)
(*                                                                         *)
(* Text is modelled as a sequence of one-character strings, so that        *)
(* strip, startswith, split and splitlines are computed as Python computes *)
(* them, character by character.                                           *)
(***************************************************************************)
EXTENDS Integers, Sequences, FiniteSets, TLC

(***************************************************************************)
(* Text primitives (Python str methods used by the client).                *)
(***************************************************************************)

\* The value of Python's None: no sequence of characters equals it.
None == <<"None">>

\* Characters str.strip() removes (the ones the model's alphabet holds).
Whitespace == {" ", "\t", "\n", "\r", "\f"}

\* Characters at which str.splitlines() breaks a line.
LineBreaks == {"\n", "\r", "\f"}

\* s[i:] for a 1-based index i (the empty text when i > Len(s)).
DropFirst(s, n) == SubSeq(s, n + 1, Len(s))

\* The positions of s that hold no whitespace.
Inked(s) == {i \in 1..Len(s) : s[i] \notin Whitespace}

\* str.strip(): the text from its first to its last non-whitespace
\* character, the empty text when there is none.
Strip(s) ==
    IF Inked(s) = {} THEN <<>>
    ELSE SubSeq(s, CHOOSE i \in Inked(s) : \A j \in Inked(s) : i <= j,
                   CHOOSE i \in Inked(s) : \A j \in Inked(s) : j <= i)

\* str.startswith(p)
StartsWith(s, p) == Len(s) >= Len(p) /\ SubSeq(s, 1, Len(p)) = p

\* The n-th smallest element of a set of positions P (0 for n = 0).
Nth(P, n) ==
    IF n = 0 THEN 0
    ELSE CHOOSE i \in P : Cardinality({q \in P : q < i}) = n - 1

\* str.split(sep) for a one-character separator: the segments between the
\* separators, always at least one.
Split(s, sep) ==
    LET P == {i \in 1..Len(s) : s[i] = sep}
        n == Cardinality(P)
    IN  [j \in 1..(n + 1) |->
            SubSeq(s, Nth(P, j - 1) + 1,
                      IF j = n + 1 THEN Len(s) ELSE Nth(P, j) - 1)]

\* str.splitlines(): a line ends at a line break, "\r\n" is one break, and
\* a break at the very end of the text opens no further line (so the empty
\* text has no line).
SplitLines(s) ==
    LET \* where a line break ends: at its last character
        E == {i \in 1..Len(s) :
                /\ s[i] \in LineBreaks
                /\ ~(s[i] = "\r" /\ i < Len(s) /\ s[i + 1] = "\n")}
        n == Cardinality(E)
        \* the width of the break that ends at position i
        w(i) == IF s[i] = "\n" /\ i > 1 /\ s[i - 1] = "\r" THEN 2 ELSE 1
        lines == IF Len(s) = 0 \/ Len(s) \in E THEN n ELSE n + 1
    IN  [j \in 1..lines |->
            SubSeq(s, Nth(E, j - 1) + 1,
                      IF j = n + 1 THEN Len(s) ELSE Nth(E, j) - w(Nth(E, j)))]

\* sep.join(pieces)
RECURSIVE Join(_, _)
Join(sep, pieces) ==
    IF pieces = <<>> THEN <<>>
    ELSE IF Len(pieces) = 1 THEN pieces[1]
    ELSE pieces[1] \o sep \o Join(sep, Tail(pieces))

\* needle in s
Contains(s, needle) ==
    \E i \in 0..(Len(s) - Len(needle)) : SubSeq(s, i + 1, i + Len(needle)) = needle

\* The elements of a sequence other than None, in order.
RECURSIVE SelectNotNone(_)
SelectNotNone(xs) ==
    IF xs = <<>> THEN <<>>
    ELSE IF Head(xs) = None THEN SelectNotNone(Tail(xs))
    ELSE <<Head(xs)>> \o SelectNotNone(Tail(xs))

(***************************************************************************)
(* The line protocol: parse_agent_line.                                    *)
(***************************************************************************)

FUNCTION_CALL_PREFIX ==
    <<"F","U","N","C","T","I","O","N","_","C","A","L","L",":">>

FINAL_ANSWER_LINE ==
    <<"F","I","N","A","L","_","A","N","S","W","E","R",":"," ","[","d","o","n","e","]">>

\* The messages of the ValueErrors parse_agent_line raises.
MsgEmptyLine ==
    <<"E","m","p","t","y"," ","r","e","s","p","o","n","s","e"," ","l","i","n","e"," ","f","r","o","m"," ","a","g","e","n","t">>

MsgMissingPayload ==
    <<"F","U","N","C","T","I","O","N","_","C","A","L","L"," ","m","i","s","s","i","n","g"," ","p","a","y","l","o","a","d">>

MsgMissingName ==
    <<"F","U","N","C","T","I","O","N","_","C","A","L","L"," ","m","i","s","s","i","n","g"," ","f","u","n","c","t","i","o","n"," ","n","a","m","e">>

MsgUnrecognizedPrefix ==
    <<"U","n","r","e","c","o","g","n","i","z","e","d"," ","a","g","e","n","t"," ","d","i","r","e","c","t","i","v","e",":"," ">>

\* The outcome of a call that either returns a value or raises ValueError.
Returned(v) == [raised |-> FALSE, value |-> v, error |-> None]
Raised(msg) == [raised |-> TRUE, value |-> None, error |-> msg]

\* Mutant: the arguments field defaults to the empty list, not to None.
AgentDirective_ListDefault(kind, name, arguments) ==
    [kind |-> kind, name |-> name,
     arguments |-> IF arguments = None THEN <<>> ELSE arguments]

\* The dataclass AgentDirective, with its defaults name = None, arguments = None.
AgentDirective(kind, name, arguments) ==
    [kind |-> kind, name |-> name, arguments |-> arguments]

\* Mutant: the arguments are taken as split, untrimmed.
StrippedArgs_Untrimmed(parts) ==
    [i \in 1..(Len(parts) - 1) |-> parts[i + 1]]

\* parts[1:] with every part stripped ([] when there is one part only).
StrippedArgs(parts) ==
    [i \in 1..(Len(parts) - 1) |-> Strip(parts[i + 1])]

\* Mutant: a line that begins with the final-answer literal is accepted,
\* whatever follows it.
parse_agent_line_FinalPrefix(line) ==
    IF line = <<>> THEN Raised(MsgEmptyLine)
    ELSE LET stripped == Strip(line) IN
         IF StartsWith(stripped, FUNCTION_CALL_PREFIX)
         THEN LET payload == Strip(DropFirst(stripped, Len(FUNCTION_CALL_PREFIX))) IN
              IF payload = <<>> THEN Raised(MsgMissingPayload)
              ELSE LET parts == Split(payload, "|")
                       name  == Strip(parts[1])
                       args  == StrippedArgs(parts)
                   IN  IF name = <<>> THEN Raised(MsgMissingName)
                       ELSE Returned(AgentDirective("function_call", name, args))
         ELSE IF StartsWith(stripped, FINAL_ANSWER_LINE)
         THEN Returned(AgentDirective("final_answer", None, None))
         ELSE Raised(MsgUnrecognizedPrefix \o line)

\* Mutant: the name is not checked, a call without a name is returned.
parse_agent_line_NoNameCheck(line) ==
    IF line = <<>> THEN Raised(MsgEmptyLine)
    ELSE LET stripped == Strip(line) IN
         IF StartsWith(stripped, FUNCTION_CALL_PREFIX)
         THEN LET payload == Strip(DropFirst(stripped, Len(FUNCTION_CALL_PREFIX))) IN
              IF payload = <<>> THEN Raised(MsgMissingPayload)
              ELSE LET parts == Split(payload, "|")
                       name  == Strip(parts[1])
                       args  == StrippedArgs(parts)
                   IN  Returned(AgentDirective("function_call", name, args))
         ELSE IF stripped = FINAL_ANSWER_LINE
         THEN Returned(AgentDirective("final_answer", None, None))
         ELSE Raised(MsgUnrecognizedPrefix \o line)

parse_agent_line(line) ==
    IF line = <<>> THEN Raised(MsgEmptyLine)
    ELSE LET stripped == Strip(line) IN
         IF StartsWith(stripped, FUNCTION_CALL_PREFIX)
         THEN LET payload == Strip(DropFirst(stripped, Len(FUNCTION_CALL_PREFIX))) IN
              IF payload = <<>> THEN Raised(MsgMissingPayload)
              ELSE LET parts == Split(payload, "|")
                       name  == Strip(parts[1])
                       args  == StrippedArgs(parts)
                   IN  IF name = <<>> THEN Raised(MsgMissingName)
                       ELSE Returned(AgentDirective("function_call", name, args))
         ELSE IF stripped = FINAL_ANSWER_LINE
         THEN Returned(AgentDirective("final_answer", None, None))
         ELSE Raised(MsgUnrecognizedPrefix \o line)

(***************************************************************************)
(* The tool catalog: _extract_schema and _build_tools_description.         *)
(*                                                                         *)
(* A tool descriptor is [name, description, schema]; description is a text *)
(* or None; schema is [is_dict, properties, required]: is_dict is FALSE    *)
(* when the descriptor carries no mapping, properties is the mapping's     *)
(* items in declaration order, each <<name, type>> with type None when the *)
(* entry declares none, and required is a sequence of names or None.       *)
(***************************************************************************)

\* dict.get(name) on a sequence of <<key, value>> items; None when absent.
RECURSIVE DictGet(_, _)
DictGet(items, key) ==
    IF items = <<>> THEN None
    ELSE IF Head(items)[1] = key THEN Head(items)[2]
    ELSE DictGet(Tail(items), key)

DictHas(items, key) == \E i \in 1..Len(items) : items[i][1] = key

\* d[key] = value on a dict kept as its items in insertion order: an existing
\* key keeps its place and takes the new value.
DictSet(items, key, value) ==
    IF DictHas(items, key)
    THEN [i \in 1..Len(items) |->
            IF items[i][1] = key THEN <<key, value>> ELSE items[i]]
    ELSE Append(items, <<key, value>>)

\* meta.get("type", "string")
TypeOf(declared) == IF declared = None THEN <<"s","t","r","i","n","g">> ELSE declared

\* The (name, type) pairs of the required names, in the order of `required`.
RequiredPairs(properties, required) ==
    [i \in 1..Len(required) |->
        <<required[i], TypeOf(DictGet(properties, required[i]))>>]

\* The (name, type) pairs of the properties not named in `required`.
RECURSIVE OptionalPairs(_, _)
OptionalPairs(properties, required) ==
    IF properties = <<>> THEN <<>>
    ELSE LET rest == OptionalPairs(Tail(properties), required) IN
         IF \E i \in 1..Len(required) : required[i] = Head(properties)[1]
         THEN rest
         ELSE <<<<Head(properties)[1], TypeOf(Head(properties)[2])>>>> \o rest

\* Mutant: the properties are listed as declared, required or not.
_extract_schema_AsDeclared(tool) ==
    IF ~tool.schema.is_dict THEN <<>>
    ELSE [i \in 1..Len(tool.schema.properties) |->
            <<tool.schema.properties[i][1], TypeOf(tool.schema.properties[i][2])>>]

_extract_schema(tool) ==
    IF ~tool.schema.is_dict THEN <<>>
    ELSE LET properties == tool.schema.properties
             required   == IF tool.schema.required = None THEN <<>>
                           ELSE tool.schema.required
         IN  RequiredPairs(properties, required) \o OptionalPairs(properties, required)

\* ", ".join(f"{param}: {ptype}" for param, ptype in schema)
ParamsText(schema) ==
    Join(<<","," ">>, [i \in 1..Len(schema) |-> schema[i][1] \o <<":"," ">> \o schema[i][2]])

\* Mutant: the entry names the tool without its parameter list.
ToolLine_BareName(tool) ==
    LET description == IF tool.description = None \/ tool.description = <<>>
                       THEN <<"N","o"," ","d","e","s","c","r","i","p","t","i","o","n">> ELSE tool.description
    IN  <<"-"," ">> \o tool.name \o <<" ","-",">"," ">> \o description

\* One line of the capability listing.
ToolLine(tool) ==
    LET description == IF tool.description = None \/ tool.description = <<>>
                       THEN <<"N","o"," ","d","e","s","c","r","i","p","t","i","o","n">> ELSE tool.description
        schema == _extract_schema(tool)
        params == IF schema # <<>> THEN ParamsText(schema) ELSE <<"n","o"," ","p","a","r","a","m","e","t","e","r","s">>
    IN  <<"-"," ">> \o tool.name \o <<"(">> \o params \o <<")"," ","-",">"," ">> \o description

\* The schema table after the loop handled the first n tools: a later tool
\* of the same name replaces the earlier entry.
RECURSIVE SchemaTable(_, _)
SchemaTable(tools, n) ==
    IF n = 0 THEN <<>>
    ELSE DictSet(SchemaTable(tools, n - 1), tools[n].name, _extract_schema(tools[n]))

_build_tools_description(tools) ==
    [text    |-> Join(<<"\n">>, [i \in 1..Len(tools) |-> ToolLine(tools[i])]),
     schemas |-> SchemaTable(tools, Len(tools))]

\* A property whose schema is the JSON value true, not a mapping (JSON Schema
\* allows a boolean where a schema is expected).
JsonTrue == <<"true">>

\* The message of the AttributeError meta.get raises on such a property.
MsgNoGet == <<"'","b","o","o","l","'"," ","o","b","j","e","c","t"," ","h","a","s"," ","n","o"," ","a","t","t","r","i","b","u","t","e"," ","'","g","e","t","'">>

\* _extract_schema over descriptors that may hold such a property: either
\* loop reaches every property it lists, and meta.get raises at the first
\* that is no mapping.
ExtractSchemaOutcome(tool) ==
    IF /\ tool.schema.is_dict
       /\ \E i \in 1..Len(tool.schema.properties) : tool.schema.properties[i][2] = JsonTrue
    THEN Raised(MsgNoGet)
    ELSE Returned(_extract_schema(tool))

\* _build_tools_description over such descriptors: nothing catches what
\* _extract_schema raises.
BuildToolsDescriptionOutcome(tools) ==
    IF \E i \in 1..Len(tools) : ExtractSchemaOutcome(tools[i]).raised
    THEN Raised(MsgNoGet)
    ELSE Returned(_build_tools_description(tools))

\* Mutant: an unknown tool is given the schema of the first tool listed.
SchemaFor_FirstListed(tool_schemas, tool_name) ==
    IF DictHas(tool_schemas, tool_name) THEN DictGet(tool_schemas, tool_name)
    ELSE IF tool_schemas # <<>> THEN tool_schemas[1][2] ELSE <<>>

\* tool_schemas.get(tool_name, [])
SchemaFor(tool_schemas, tool_name) ==
    IF DictHas(tool_schemas, tool_name) THEN DictGet(tool_schemas, tool_name) ELSE <<>>

\* SYSTEM_PROMPT.format(tools_description=...): the template's text up to the
\* placeholder, the description, and the template's text after it.  Of the
\* fixed text only the lines next to the placeholder are kept.
SystemPromptHead == <<"A","v","a","i","l","a","b","l","e"," ","t","o","o","l","s",":","\n">>
SystemPromptTail == <<"\n","\n","R","e","m","e","m","b","e","r",":"," ","o","n","l","y"," ","u","s","e"," ","F","U","N","C","T","I","O","N","_","C","A","L","L"," ","o","r"," ","F","I","N","A","L","_","A","N","S","W","E","R"," ","l","i","n","e","s","."," ","N","o","t","h","i","n","g"," ","e","l","s","e",".","\n">>
FormatSystemPrompt(tools_description) ==
    SystemPromptHead \o tools_description \o SystemPromptTail

(***************************************************************************)
(* Argument coercion: _convert_argument.                                   *)
(*                                                                         *)
(* A coerced value is <<"int", n>>, <<"float", m, e>> (the number          *)
(* m * 10^e with e < 0 and m no multiple of 10), <<"float", "inf">>,       *)
(* <<"float", "-inf">>, <<"float", "nan">> or <<"str", text>>.             *)
(* Decimal literals are read exactly: the literals the model draws are     *)
(* short enough for a double to hold them without rounding to a whole      *)
(* number.                                                                 *)
(***************************************************************************)

Digits == <<"0", "1", "2", "3", "4", "5", "6", "7", "8", "9">>

IsDigit(c) == \E d \in 1..Len(Digits) : Digits[d] = c

DigitVal(c) == (CHOOSE d \in 1..Len(Digits) : Digits[d] = c) - 1

\* A non-empty run of digits in which single underscores may separate digits.
IsDigitRun(s) ==
    /\ s # <<>>
    /\ IsDigit(s[1])
    /\ IsDigit(s[Len(s)])
    /\ \A i \in 1..Len(s) : IsDigit(s[i]) \/ s[i] = "_"
    /\ \A i \in 1..(Len(s) - 1) : ~(s[i] = "_" /\ s[i + 1] = "_")

\* The value of the digits among the first n characters of s.
RECURSIVE DigitsVal(_, _)
DigitsVal(s, n) ==
    IF n = 0 THEN 0
    ELSE IF s[n] = "_" THEN DigitsVal(s, n - 1)
    ELSE 10 * DigitsVal(s, n - 1) + DigitVal(s[n])

DigitRunVal(s) == DigitsVal(s, Len(s))

\* The number of digits of a digit run.
DigitCount(s) == Cardinality({i \in 1..Len(s) : IsDigit(s[i])})

HasSign(s) == s # <<>> /\ s[1] \in {"+", "-"}
Unsigned(s) == IF HasSign(s) THEN Tail(s) ELSE s
SignOf(s) == IF s # <<>> /\ s[1] = "-" THEN -1 ELSE 1

\* repr() of a text that holds no quote, backslash or control character.
Repr(s) == <<"'">> \o s \o <<"'">>

\* int(value): surrounding whitespace, an optional sign, a digit run.
ParseInt(value) ==
    LET t == Strip(value) IN
    IF IsDigitRun(Unsigned(t))
    THEN Returned(<<"int", SignOf(t) * DigitRunVal(Unsigned(t))>>)
    ELSE Raised(<<"i","n","v","a","l","i","d"," ","l","i","t","e","r","a","l"," ","f","o","r"," ","i","n","t","(",")"," ","w","i","t","h"," ","b","a","s","e"," ","1","0",":"," ">> \o Repr(value))

RECURSIVE Pow10(_)
Pow10(n) == IF n <= 0 THEN 1 ELSE 10 * Pow10(n - 1)

\* m * 10^e with the trailing zeros of m moved into e: a whole number comes
\* out with e >= 0.
RECURSIVE Normalised(_, _)
Normalised(m, e) ==
    IF m = 0 THEN <<0, 0>>
    ELSE IF e < 0 /\ m % 10 = 0 THEN Normalised(m \div 10, e + 1)
    ELSE <<m, e>>

Lower(c) ==
    CASE c = "I" -> "i" [] c = "N" -> "n" [] c = "F" -> "f" [] c = "T" -> "t"
      [] c = "Y" -> "y" [] c = "A" -> "a" [] c = "E" -> "e" [] OTHER -> c

LowerText(s) == [i \in 1..Len(s) |-> Lower(s[i])]

\* The position of the exponent marker of a decimal literal, 0 when none.
ExpPos(s) ==
    IF \E i \in 1..Len(s) : s[i] \in {"e", "E"}
    THEN CHOOSE i \in 1..Len(s) :
            s[i] \in {"e", "E"} /\ \A j \in 1..(i - 1) : s[j] \notin {"e", "E"}
    ELSE 0

\* float(value): surrounding whitespace, an optional sign, then inf, infinity
\* or nan in any case, or digits with an optional point and exponent.
ParseFloat(value) ==
    LET t    == Strip(value)
        u    == Unsigned(t)
        k    == ExpPos(u)
        mant == IF k = 0 THEN u ELSE SubSeq(u, 1, k - 1)
        expo == IF k = 0 THEN <<>> ELSE DropFirst(u, k)
        segs == Split(mant, ".")
        ip   == segs[1]
        fp   == IF Len(segs) = 2 THEN segs[2] ELSE <<>>
        mantOK == /\ Len(segs) <= 2
                  /\ ip = <<>> \/ IsDigitRun(ip)
                  /\ fp = <<>> \/ IsDigitRun(fp)
                  /\ ip # <<>> \/ fp # <<>>
        expOK  == k = 0 \/ IsDigitRun(Unsigned(expo))
        e10    == IF k = 0 THEN 0 ELSE SignOf(expo) * DigitRunVal(Unsigned(expo))
        digits == DigitRunVal(ip) * Pow10(DigitCount(fp)) + DigitRunVal(fp)
        shift  == e10 - DigitCount(fp)
        m      == SignOf(t) * digits * Pow10(shift)
        n      == Normalised(m, IF shift < 0 THEN shift ELSE 0)
    IN  IF LowerText(u) \in {<<"i","n","f">>, <<"i","n","f","i","n","i","t","y">>}
        THEN Returned(<<"float", IF SignOf(t) < 0 THEN "-inf" ELSE "inf">>)
        ELSE IF LowerText(u) = <<"n","a","n">>
        THEN Returned(<<"float", "nan">>)
        ELSE IF mantOK /\ expOK
        THEN Returned(<<"float", n[1], n[2]>>)
        ELSE Raised(<<"c","o","u","l","d"," ","n","o","t"," ","c","o","n","v","e","r","t"," ","s","t","r","i","n","g"," ","t","o"," ","f","l","o","a","t",":"," ">> \o Repr(value))

\* Mutant: the narrowing to int is left out, a number stays a float.
IsIntegerFloat_Never(f) == FALSE

\* float.is_integer()
IsIntegerFloat(f) == Len(f) = 3 /\ f[3] >= 0

_convert_argument(value, schema_type) ==
    IF schema_type = <<"i","n","t","e","g","e","r">> THEN ParseInt(value)
    ELSE IF schema_type = <<"n","u","m","b","e","r">>
    THEN LET as_float == ParseFloat(value) IN
         IF as_float.raised THEN as_float
         ELSE IF IsIntegerFloat(as_float.value)
         THEN Returned(<<"int", as_float.value[2]>>)
         ELSE as_float
    ELSE Returned(<<"str", value>>)

(***************************************************************************)
(* Response text extraction: _extract_response_text and _call_tool.        *)
(*                                                                         *)
(* A model response is [output_text, parts, rendering]: output_text is a   *)
(* text or None, parts holds the text (or None for a part without text) of *)
(* each part of the first candidate (<<>> when there is no candidate), and *)
(* rendering is str(response).                                             *)
(*                                                                         *)
(* A tool response is [has_content, content, rendering]; a content item is *)
(* [form, type, text] with form "object" (text is the attribute, None when *)
(* missing or None) or "dict" (text is the key's value, None when the key  *)
(* is absent).                                                             *)
(***************************************************************************)

_extract_response_text(response) ==
    LET text      == response.output_text
        fragments == SelectNotNone(response.parts)
    IN  IF text # None /\ Strip(text) # <<>> THEN Strip(text)
        ELSE IF fragments # <<>> THEN Strip(Join(<<>>, fragments))
        ELSE Strip(response.rendering)

\* Mutant: the whole reply is taken, not its first line.
PrimaryLine_WholeReply(raw_text) == raw_text

\* raw_text.splitlines()[0] if raw_text else ""
PrimaryLine(raw_text) ==
    IF raw_text # <<>> THEN SplitLines(raw_text)[1] ELSE <<>>

\* Mutant: the text of every item is taken, whatever the item is tagged.
RECURSIVE TextPieces_AnyText(_)
TextPieces_AnyText(content) ==
    IF content = <<>> THEN <<>>
    ELSE LET item == Head(content)
             rest == TextPieces_AnyText(Tail(content))
         IN  IF item.text # None THEN <<item.text>> \o rest ELSE rest

\* The text pieces _call_tool collects from the content items, in order.
RECURSIVE TextPieces(_)
TextPieces(content) ==
    IF content = <<>> THEN <<>>
    ELSE LET item == Head(content)
             rest == TextPieces(Tail(content))
         IN  IF item.form = "object" /\ item.text # None
             THEN <<item.text>> \o rest
             ELSE IF item.form = "dict" /\ item.type = "text"
             THEN <<IF item.text = None THEN <<>> ELSE item.text>> \o rest
             ELSE rest

\* The text _call_tool returns for a response of the tool collaborator.
ToolResultText(response) ==
    LET pieces == IF response.has_content THEN TextPieces(response.content) ELSE <<>>
    IN  IF pieces # <<>> THEN Strip(Join(<<"\n">>, pieces))
        ELSE Strip(response.rendering)

(***************************************************************************)
(* The messages run_agent builds.                                          *)
(***************************************************************************)

\* str(n) for a natural number.
RECURSIVE NatToText(_)
NatToText(n) ==
    IF n < 10 THEN <<Digits[n + 1]>>
    ELSE NatToText(n \div 10) \o <<Digits[(n % 10) + 1]>>

\* Mutant: the correction only repeats the error.
Feedback_ErrorOnly(exc) == <<"U","n","r","e","c","o","g","n","i","z","e","d"," ","r","e","s","p","o","n","s","e"," ","(">> \o exc \o <<")",".">>

\* f"Unrecognized response ({exc}). Please follow the protocol."
Feedback(exc) ==
    <<"U","n","r","e","c","o","g","n","i","z","e","d"," ","r","e","s","p","o","n","s","e"," ","(">> \o exc \o <<")","."," ","P","l","e","a","s","e"," ","f","o","l","l","o","w"," ","t","h","e"," ","p","r","o","t","o","c","o","l",".">>

\* Mutant: a result that reports an error is fed back under another tag.
ToolResultMessage_ErrorTagged(tool_name, tool_result) ==
    IF StartsWith(tool_result, <<"E","R","R","O","R">>)
    THEN <<"T","O","O","L","_","E","R","R","O","R"," ">> \o tool_name \o <<":"," ">> \o tool_result
    ELSE <<"T","O","O","L","_","R","E","S","U","L","T"," ">> \o tool_name \o <<":"," ">> \o tool_result

\* f"TOOL_RESULT {tool_name}: {tool_result}"
ToolResultMessage(tool_name, tool_result) ==
    <<"T","O","O","L","_","R","E","S","U","L","T"," ">> \o tool_name \o <<":"," ">> \o tool_result

\* Mutant: every argument is named by its position, declared or not.
ArgKey_Synthesized(schema, idx) == <<"a","r","g">> \o NatToText(idx)

\* Mutant: the synthesized names count from 1.
ArgKey_OneBased(schema, idx) ==
    IF idx < Len(schema) THEN schema[idx + 1][1] ELSE <<"a","r","g">> \o NatToText(idx + 1)

\* The key and declared type of the raw argument at 0-based position idx.
ArgKey(schema, idx) ==
    IF idx < Len(schema) THEN schema[idx + 1][1] ELSE <<"a","r","g">> \o NatToText(idx)

ArgType(schema, idx) ==
    IF idx < Len(schema) THEN schema[idx + 1][2] ELSE <<"s","t","r","i","n","g">>

\* Mutant: an argument that cannot be coerced is sent as the empty text.
ArgValue_Blank(raw_arg, expected_type) ==
    LET r == _convert_argument(raw_arg, expected_type) IN
    IF r.raised THEN <<"str", <<>>>> ELSE r.value

\* The value stored for a raw argument: the coerced value, or the raw text
\* when the coercion raises ValueError.
ArgValue(raw_arg, expected_type) ==
    LET r == _convert_argument(raw_arg, expected_type) IN
    IF r.raised THEN <<"str", raw_arg>> ELSE r.value

\* The arguments dict after the first n raw arguments were stored.
RECURSIVE BuildArguments(_, _, _)
BuildArguments(raw_args, schema, n) ==
    IF n = 0 THEN <<>>
    ELSE DictSet(BuildArguments(raw_args, schema, n - 1),
                 ArgKey(schema, n - 1),
                 ArgValue(raw_args[n], ArgType(schema, n - 1)))

\* The log lines of the argument loop, in order.
RECURSIVE ArgumentLog(_, _, _, _)
ArgumentLog(tool_name, raw_args, schema, n) ==
    IF n = 0 THEN <<>>
    ELSE LET r == _convert_argument(raw_args[n], ArgType(schema, n - 1)) IN
         ArgumentLog(tool_name, raw_args, schema, n - 1) \o
         (IF r.raised
          THEN <<<<"a","r","g","u","m","e","n","t","_","p","a","r","s","e","_","e","r","r","o","r"," ","t","o","o","l","=">> \o tool_name \o <<" ","a","r","g","=">>
                 \o ArgKey(schema, n - 1) \o <<" ","v","a","l","u","e","=">> \o raw_args[n]
                 \o <<" ","e","r","r","o","r","=">> \o r.error>>
          ELSE <<>>)

MismatchLog(tool_name, raw_args, schema) ==
    IF Len(raw_args) # Len(schema)
    THEN <<<<"a","r","g","u","m","e","n","t","_","m","i","s","m","a","t","c","h"," ","t","o","o","l","=">> \o tool_name \o <<" ","e","x","p","e","c","t","e","d","=">>
           \o NatToText(Len(schema)) \o <<" ","r","e","c","e","i","v","e","d","=">> \o NatToText(Len(raw_args))>>
    ELSE <<>>

(***************************************************************************)
(* Bounds and the inputs the collaborators are drawn from.                 *)
(***************************************************************************)

\* The largest --max-iterations a run is started with.
MaxIter == 2

\* --max-iterations is any integer argparse accepts: a cap below 1 is legal.
Caps == (0 - 1)..MaxIter

Queries == {<<"h","i">>}

Tool(name, description, is_dict, properties, required) ==
    [name |-> name, description |-> description,
     schema |-> [is_dict |-> is_dict, properties |-> properties, required |-> required]]

\* What list_tools() may return.
ToolListings ==
    {<<Tool(<<"d","r","a","w">>, <<"b","o","x">>, TRUE,
            <<<<<<"w">>, <<"n","u","m","b","e","r">>>>, <<<<"x">>, <<"i","n","t","e","g","e","r">>>>>>, <<<<"x">>>>),
       Tool(<<"o","p","e","n">>, None, FALSE, <<>>, None)>>,
     <<Tool(<<"d","r","a","w">>, <<>>, TRUE,
            <<<<<<"w">>, <<"n","u","m","b","e","r">>>>, <<<<"x">>, <<"i","n","t","e","g","e","r">>>>>>, <<<<"x">>>>)>>}

ModelResponse(output_text, parts, rendering) ==
    [output_text |-> output_text, parts |-> parts, rendering |-> rendering]

\* What the model collaborator may answer.
ModelResponses ==
    {ModelResponse(<<"F","I","N","A","L","_","A","N","S","W","E","R",":"," ","[","d","o","n","e","]">>, <<>>, <<"r">>),
     ModelResponse(None, <<<<"F","I","N","A","L","_","A","N","S","W","E","R",":"," ","[","d","o","n","e","]","\n","F","U","N","C","T","I","O","N","_","C","A","L","L",":"," ","o","p","e","n">>>>, <<"r">>),
     ModelResponse(None, <<<<"S","A","Y",":"," ","h","e","l","l","o">>>>, <<"r">>),
     ModelResponse(None, <<<<"S","A","Y",":"," ","h","e","l","l","o","\n">>, <<"F","I","N","A","L","_","A","N","S","W","E","R",":"," ","[","d","o","n","e","]">>>>, <<"r">>),
     ModelResponse(<<" ">>, <<None, <<" ">>>>, <<"r">>),
     ModelResponse(None, <<<<"F","U","N","C","T","I","O","N","_","C","A","L","L",":"," ","|","a">>>>, <<"r">>),
     ModelResponse(None, <<<<" ","F","U","N","C","T","I","O","N","_","C","A","L","L",":"," ","d","r","a","w","|","1","|","2",".","0">>>>, <<"r">>),
     ModelResponse(None, <<>>, <<"F","U","N","C","T","I","O","N","_","C","A","L","L",":"," ","o","p","e","n","\r","\n","S","A","Y",":"," ","h","e","l","l","o">>),
     ModelResponse(None, <<<<"F","U","N","C","T","I","O","N","_","C","A","L","L",":"," ","z","a","p","|","a">>>>, <<"r">>),
     ModelResponse(None, <<<<"F","U","N","C","T","I","O","N","_","C","A","L","L",":"," ","d","r","a","w","|","1","|","2",".","5","|","3","|","4","|","5">>>>, <<"r">>),
     ModelResponse(None, <<<<"F","U","N","C","T","I","O","N","_","C","A","L","L",":"," ","d","r","a","w","|","a","|","2",".","5">>>>, <<"r">>),
     ModelResponse(None, <<<<"F","U","N","C","T","I","O","N","_","C","A","L","L",":"," ","d","r","a","w","|","7">>>>, <<"r">>)}

ContentItem(form, type, text) == [form |-> form, type |-> type, text |-> text]

ToolResponse(has_content, content, rendering) ==
    [has_content |-> has_content, content |-> content, rendering |-> rendering]

\* What the tool collaborator may answer to call_tool: a result of two text
\* items, and an error of one.
ToolResponses ==
    {ToolResponse(TRUE, <<ContentItem("object", "text", <<"O","K">>),
                          ContentItem("object", "text", <<"[","i","d","]"," ","7">>)>>, <<"r">>),
     ToolResponse(TRUE, <<ContentItem("object", "text", <<"E","R","R","O","R",":"," ","n","o">>)>>, <<"r">>)}

\* SERVER_STATE as the Keynote server module is loaded.
InitialServerState ==
    [last_rectangle_id |-> None,
     last_slide_dims |-> [width |-> None, height |-> None]]

(***************************************************************************)
(* The state of one run of run_agent.                                      *)
(***************************************************************************)

VARIABLES
    pc,              \* where run_agent stands
    query,           \* the caller's query
    max_iterations,  \* the caller's cap
    logOpen,         \* the run log's file handle is open
    sessionOpen,     \* the stdio channel and the ClientSession are open
    outstanding,     \* the collaborator requests awaiting their response
    system_prompt,   \* the system instruction built from the tool listing
    tool_schemas,    \* the schema table built from the tool listing
    history,         \* the conversation history
    next_message,    \* the next outbound user message
    iteration,       \* the loop variable
    tool_name,       \* the tool of the call awaiting its response
    model_requests,  \* the requests made to the model collaborator
    tool_calls,      \* the calls made to the tool collaborator
    log,             \* the messages given to logger.log, in order
    exception,       \* the call whose exception left run_agent, "" when none
    call,            \* a function of the client applied on its own: its
                     \* name and arguments (None within a run of run_agent)
    returned,        \* what that call returned or raised (None before it ends)
    SERVER_STATE,    \* the Keynote server's module-level state
    effects          \* what the last call of a server tool did outside the
                     \* server: the scripts it ran, the messages it sent

vars == <<pc, query, max_iterations, logOpen, sessionOpen, outstanding,
          system_prompt, tool_schemas, history, next_message, iteration,
          tool_name, model_requests, tool_calls, log, exception,
          call, returned, SERVER_STATE, effects>>

Terminal == {"done", "exhausted", "raised"}

Init ==
    /\ pc = "start"
    /\ query \in Queries
    /\ max_iterations \in Caps
    /\ logOpen = FALSE
    /\ sessionOpen = FALSE
    /\ outstanding = {}
    /\ system_prompt = <<>>
    /\ tool_schemas = <<>>
    /\ history = <<>>
    /\ next_message = <<>>
    /\ iteration = 0
    /\ tool_name = <<>>
    /\ model_requests = <<>>
    /\ tool_calls = <<>>
    /\ log = <<>>
    /\ exception = ""
    /\ call = None
    /\ returned = None
    /\ SERVER_STATE = InitialServerState
    /\ effects = <<>>

\* Mutant: the cap is tested after the body, so the body runs at least once.
HasNextIteration_AtLeastOnce(it, cap) == it = 0 \/ it < cap

\* Mutant: the range runs one value too far.
HasNextIteration_OneMore(it, cap) == it <= cap

\* Mutant: the range stops one value early (range(1, max_iterations)).
HasNextIteration_OneLess(it, cap) == it + 1 < cap

\* range(1, max_iterations + 1) holds a value after `iteration`.
HasNextIteration(it, cap) == it < cap

\* {"role": role, "parts": [{"text": text}]}
Turn(role, text) == [role |-> role, text |-> text]

\* Mutant: the turn is inserted at the front of history.
AppendTurn_AtFront(h, role, text) == <<Turn(role, text)>> \o h

\* history.append(turn)
AppendTurn(h, role, text) == Append(h, Turn(role, text))

\* The session channel once both `async with` blocks were left.
SessionAfterExit == FALSE

\* Mutant: no finally clause closes the log.
LogAfterClose_StillOpen == TRUE

\* The log handle once the finally clause ran logger.close().
LogAfterClose == FALSE

\* Leaving the `async with` blocks and the try statement, on any path.
Release ==
    /\ sessionOpen' = SessionAfterExit
    /\ logOpen' = LogAfterClose
    /\ outstanding' = {}

\* Lines 241-253: the API key is read; without one run_agent raises before
\* anything is opened, with one the run log is opened.
Start ==
    /\ pc = "start"
    /\ \E api_key_set \in BOOLEAN :
        IF api_key_set
        THEN pc' = "client" /\ logOpen' = TRUE /\ UNCHANGED exception
        ELSE pc' = "raised" /\ exception' = "GEMINI_API_KEY" /\ UNCHANGED logOpen
    /\ UNCHANGED <<SERVER_STATE, effects, call, returned, query, max_iterations, sessionOpen, outstanding, system_prompt,
                   tool_schemas, history, next_message, iteration, tool_name,
                   model_requests, tool_calls, log>>

\* Line 255: the model client is built, before the try statement: when its
\* constructor raises, no finally clause closes the log.
MakeClient ==
    /\ pc = "client"
    /\ \E ok \in BOOLEAN :
        IF ok
        THEN pc' = "connect" /\ UNCHANGED exception
        ELSE pc' = "raised" /\ exception' = "genai.Client"
    /\ UNCHANGED <<SERVER_STATE, effects, call, returned, query, max_iterations, logOpen, sessionOpen, outstanding,
                   system_prompt, tool_schemas, history, next_message, iteration,
                   tool_name, model_requests, tool_calls, log>>

\* Lines 257-260: the server is spawned and the session opened, then
\* session.initialize() is awaited; a server that cannot be spawned raises
\* inside the try statement.
Connect ==
    /\ pc = "connect"
    /\ \E ok \in BOOLEAN :
        IF ok
        THEN /\ pc' = "initializing"
             /\ sessionOpen' = TRUE
             /\ outstanding' = outstanding \cup {"initialize"}
             /\ UNCHANGED <<logOpen, exception>>
        ELSE /\ pc' = "raised"
             /\ exception' = "stdio_client"
             /\ Release
    /\ UNCHANGED <<SERVER_STATE, effects, call, returned, query, max_iterations, system_prompt, tool_schemas, history,
                   next_message, iteration, tool_name, model_requests, tool_calls, log>>

\* Line 262: initialize returned, list_tools() is awaited.
Initialized ==
    /\ pc = "initializing"
    /\ pc' = "listing"
    /\ outstanding' = (outstanding \ {"initialize"}) \cup {"list_tools"}
    /\ UNCHANGED <<SERVER_STATE, effects, call, returned, query, max_iterations, logOpen, sessionOpen, system_prompt,
                   tool_schemas, history, next_message, iteration, tool_name,
                   model_requests, tool_calls, log,
                   exception>>

\* ', '.join(getattr(tool, 'name', 'unknown') for tool in tools)
ToolNames(tools) == Join(<<","," ">>, [i \in 1..Len(tools) |-> tools[i].name])

\* Lines 262-269: the tools are listed, the system instruction and the schema
\* table are built, history starts empty and the query is the first message.
ToolsListed ==
    /\ pc = "listing"
    /\ \E tools \in ToolListings :
        LET built == _build_tools_description(tools) IN
        /\ system_prompt' = FormatSystemPrompt(built.text)
        /\ tool_schemas' = built.schemas
        /\ log' = Append(log, <<"t","o","o","l","s"," ","l","i","s","t","e","d",":"," ">> \o ToolNames(tools))
    /\ history' = <<>>
    /\ next_message' = query
    /\ outstanding' = outstanding \ {"list_tools"}
    /\ pc' = "loop"
    /\ UNCHANGED <<SERVER_STATE, effects, call, returned, query, max_iterations, logOpen, sessionOpen, iteration,
                   tool_name, model_requests, tool_calls,
                   exception>>

\* Mutant: the next iteration starts without waiting for the tool call to
\* return.
IterationStart_Eager ==
    /\ pc \in {"loop", "awaiting_tool"}
    /\ HasNextIteration(iteration, max_iterations)
    /\ iteration' = iteration + 1
    /\ history' = AppendTurn(history, "user", next_message)
    /\ log' = Append(log, <<"i","t","e","r","a","t","i","o","n","=">> \o NatToText(iteration + 1)
                          \o <<" ","u","s","e","r","_","m","e","s","s","a","g","e","=">> \o next_message)
    /\ model_requests' = Append(model_requests,
            [iteration |-> iteration + 1,
             turns |-> Len(history) + 1,
             system_instruction |-> system_prompt])
    /\ outstanding' = outstanding \cup {"model"}
    /\ pc' = "awaiting_model"
    /\ UNCHANGED <<SERVER_STATE, effects, call, returned, query, max_iterations, logOpen, sessionOpen, system_prompt,
                   tool_schemas, next_message, tool_name, tool_calls,
                   exception>>

\* Lines 271-275: the next iteration appends the outbound message as a user
\* turn and asks the model for its reply to the history.
IterationStart ==
    /\ pc = "loop"
    /\ HasNextIteration(iteration, max_iterations)
    /\ iteration' = iteration + 1
    /\ history' = AppendTurn(history, "user", next_message)
    /\ log' = Append(log, <<"i","t","e","r","a","t","i","o","n","=">> \o NatToText(iteration + 1)
                          \o <<" ","u","s","e","r","_","m","e","s","s","a","g","e","=">> \o next_message)
    /\ model_requests' = Append(model_requests,
            [iteration |-> iteration + 1,
             turns |-> Len(history) + 1,
             system_instruction |-> system_prompt])
    /\ outstanding' = outstanding \cup {"model"}
    /\ pc' = "awaiting_model"
    /\ UNCHANGED <<SERVER_STATE, effects, call, returned, query, max_iterations, logOpen, sessionOpen, system_prompt,
                   tool_schemas, next_message, tool_name, tool_calls,
                   exception>>

\* Mutant: the report follows the loop instead of being its else clause, so
\* it is also written after a break.
Exhausted_AfterLoop ==
    /\ \/ pc = "loop" /\ ~HasNextIteration(iteration, max_iterations)
       \/ pc = "done"
    /\ log' = Append(log, <<"M","a","x"," ","i","t","e","r","a","t","i","o","n","s"," ","r","e","a","c","h","e","d"," ","w","i","t","h","o","u","t"," ","F","I","N","A","L","_","A","N","S","W","E","R">>)
    /\ Release
    /\ pc' = "exhausted"
    /\ UNCHANGED <<SERVER_STATE, effects, call, returned, query, max_iterations, system_prompt, tool_schemas, history,
                   next_message, iteration, tool_name, model_requests, tool_calls,
                   exception>>

\* Lines 326-329: the range is used up without a break; the else clause
\* reports it and run_agent returns through the finally clause.
Exhausted ==
    /\ pc = "loop"
    /\ ~HasNextIteration(iteration, max_iterations)
    /\ log' = Append(log, <<"M","a","x"," ","i","t","e","r","a","t","i","o","n","s"," ","r","e","a","c","h","e","d"," ","w","i","t","h","o","u","t"," ","F","I","N","A","L","_","A","N","S","W","E","R">>)
    /\ Release
    /\ pc' = "exhausted"
    /\ UNCHANGED <<SERVER_STATE, effects, call, returned, query, max_iterations, system_prompt, tool_schemas, history,
                   next_message, iteration, tool_name, model_requests, tool_calls,
                   exception>>

\* What the loop derives from a model response (lines 277-283): the first
\* line of the extracted text, and the outcome of parsing that line.
LineOf(response) == PrimaryLine(_extract_response_text(response))

\* The first line of each reply the model may give, and what it parses to:
\* tabulated once, so that every step reads them off.
ReplyLine == [r \in ModelResponses |-> LineOf(r)]

ReplyDirective == [r \in ModelResponses |-> parse_agent_line(ReplyLine[r])]

\* Lines 277-288: the reply's first line becomes a model turn; it does not
\* parse, so the correction becomes the next outbound message and the loop
\* continues with the next iteration.
ProtocolError ==
    /\ pc = "awaiting_model"
    /\ \E response \in ModelResponses :
        LET primary_line == ReplyLine[response]
            parsed       == ReplyDirective[response]
        IN  /\ parsed.raised
            /\ history' = AppendTurn(history, "model", primary_line)
            /\ next_message' = Feedback(parsed.error)
            /\ log' = log \o <<<<"m","o","d","e","l","_","r","e","s","p","o","n","s","e","=">> \o primary_line,
                               <<"p","r","o","t","o","c","o","l","_","e","r","r","o","r","=">> \o parsed.error>>
    /\ outstanding' = outstanding \ {"model"}
    /\ pc' = "loop"
    /\ UNCHANGED <<SERVER_STATE, effects, call, returned, query, max_iterations, logOpen, sessionOpen, system_prompt,
                   tool_schemas, iteration, tool_name, model_requests, tool_calls,
                   exception>>

\* Mutant: the final answer does not leave the loop (continue for break).
FinalAnswer_Continue ==
    /\ pc = "awaiting_model"
    /\ \E response \in ModelResponses :
        LET primary_line == ReplyLine[response]
            parsed       == ReplyDirective[response]
        IN  /\ ~parsed.raised
            /\ parsed.value.kind = "final_answer"
            /\ history' = AppendTurn(history, "model", primary_line)
            /\ log' = log \o <<<<"m","o","d","e","l","_","r","e","s","p","o","n","s","e","=">> \o primary_line,
                               <<"A","g","e","n","t"," ","s","i","g","n","a","l","e","d"," ","F","I","N","A","L","_","A","N","S","W","E","R">>>>
    /\ outstanding' = outstanding \ {"model"}
    /\ pc' = "loop"
    /\ UNCHANGED <<SERVER_STATE, effects, call, returned, query, max_iterations, logOpen, sessionOpen, system_prompt, tool_schemas,
                   next_message, iteration, tool_name, model_requests, tool_calls,
                   exception>>

\* Lines 277-292: the reply's first line is the final answer: the loop is
\* left by break, and run_agent returns through the finally clause.
FinalAnswer ==
    /\ pc = "awaiting_model"
    /\ \E response \in ModelResponses :
        LET primary_line == ReplyLine[response]
            parsed       == ReplyDirective[response]
        IN  /\ ~parsed.raised
            /\ parsed.value.kind = "final_answer"
            /\ history' = AppendTurn(history, "model", primary_line)
            /\ log' = log \o <<<<"m","o","d","e","l","_","r","e","s","p","o","n","s","e","=">> \o primary_line,
                               <<"A","g","e","n","t"," ","s","i","g","n","a","l","e","d"," ","F","I","N","A","L","_","A","N","S","W","E","R">>>>
    /\ Release
    /\ pc' = "done"
    /\ UNCHANGED <<SERVER_STATE, effects, call, returned, query, max_iterations, system_prompt, tool_schemas,
                   next_message, iteration, tool_name, model_requests, tool_calls,
                   exception>>

\* hasattr(session, "call_tool"): ClientSession declares call_tool.
SessionHasCallTool == TRUE

\* Mutant: the tool is called a second time with the same arguments.
CallTool_Twice(calls, it, name, arguments) ==
    calls \o <<[iteration |-> it, name |-> name, arguments |-> arguments],
               [iteration |-> it, name |-> name, arguments |-> arguments]>>

\* session.call_tool(tool_name, arguments): one more call reaches the tool
\* collaborator.
CallTool(calls, it, name, arguments) ==
    Append(calls, [iteration |-> it, name |-> name, arguments |-> arguments])

\* Lines 277-321: the reply's first line is a function call: its raw
\* arguments are mapped onto the tool's schema and coerced, and the tool is
\* called.
FunctionCall ==
    /\ pc = "awaiting_model"
    /\ \E response \in ModelResponses :
        LET primary_line == ReplyLine[response]
            parsed       == ReplyDirective[response]
        IN  /\ ~parsed.raised
            /\ parsed.value.kind = "function_call"
            /\ LET name      == parsed.value.name
                   raw_args  == parsed.value.arguments
                   schema    == SchemaFor(tool_schemas, name)
                   arguments == BuildArguments(raw_args, schema, Len(raw_args))
                   lines     == <<<<"m","o","d","e","l","_","r","e","s","p","o","n","s","e","=">> \o primary_line>>
                                \o MismatchLog(name, raw_args, schema)
                                \o ArgumentLog(name, raw_args, schema, Len(raw_args))
                                \o <<<<"F","U","N","C","T","I","O","N","_","C","A","L","L"," ","p","a","r","s","e","d",":"," ">> \o name \o <<"|">>
                                     \o Join(<<"|">>, raw_args)>>
               IN  /\ history' = AppendTurn(history, "model", primary_line)
                   /\ log' = log \o lines
                   /\ IF SessionHasCallTool
                      THEN /\ tool_name' = name
                           /\ tool_calls' = CallTool(tool_calls, iteration, name, arguments)
                           /\ outstanding' = (outstanding \ {"model"}) \cup {"tool"}
                           /\ pc' = "awaiting_tool"
                           /\ UNCHANGED <<logOpen, sessionOpen, exception>>
                      ELSE /\ Release
                           /\ pc' = "raised"
                           /\ exception' = "RuntimeError"
                           /\ UNCHANGED <<tool_name, tool_calls>>
    /\ UNCHANGED <<SERVER_STATE, effects, call, returned, query, max_iterations, system_prompt, tool_schemas,
                   next_message, iteration, model_requests>>

\* Mutant: when a tool call returns, the tools are listed again and the
\* system instruction and the schema table are rebuilt.
ToolReturned_Relisting ==
    /\ pc = "awaiting_tool"
    /\ \E response \in ToolResponses :
        LET tool_result == ToolResultText(response) IN
        /\ log' = Append(log, <<"t","o","o","l","_","r","e","s","u","l","t"," ","n","a","m","e","=">> \o tool_name
                              \o <<" ","o","u","t","p","u","t","=">> \o tool_result)
        /\ next_message' = ToolResultMessage(tool_name, tool_result)
    /\ \E tools \in ToolListings :
        LET built == _build_tools_description(tools) IN
        /\ system_prompt' = FormatSystemPrompt(built.text)
        /\ tool_schemas' = built.schemas
    /\ outstanding' = outstanding \ {"tool"}
    /\ pc' = "loop"
    /\ UNCHANGED <<SERVER_STATE, effects, call, returned, query, max_iterations, logOpen, sessionOpen,
                   history, iteration, tool_name, model_requests,
                   tool_calls,
                   exception>>

\* Lines 321-324: the tool's response arrived; its text, whatever it reports,
\* becomes the next outbound message.
ToolReturned ==
    /\ pc = "awaiting_tool"
    /\ \E response \in ToolResponses :
        LET tool_result == ToolResultText(response) IN
        /\ log' = Append(log, <<"t","o","o","l","_","r","e","s","u","l","t"," ","n","a","m","e","=">> \o tool_name
                              \o <<" ","o","u","t","p","u","t","=">> \o tool_result)
        /\ next_message' = ToolResultMessage(tool_name, tool_result)
    /\ outstanding' = outstanding \ {"tool"}
    /\ pc' = "loop"
    /\ UNCHANGED <<SERVER_STATE, effects, call, returned, query, max_iterations, logOpen, sessionOpen, system_prompt,
                   tool_schemas, history, iteration, tool_name, model_requests,
                   tool_calls,
                   exception>>

\* The collaborator call run_agent waits in at each suspension point.
CallAwaited(at) ==
    CASE at = "initializing"   -> "initialize"
      [] at = "listing"        -> "list_tools"
      [] at = "awaiting_model" -> "generate"
      [] at = "awaiting_tool"  -> "call_tool"

\* A collaborator call raises instead of returning (the server died, the
\* model API failed): nothing in run_agent catches it, the `async with`
\* blocks and the finally clause run, and the exception leaves run_agent.
TransportFault ==
    /\ pc \in {"initializing", "listing", "awaiting_model", "awaiting_tool"}
    /\ Release
    /\ exception' = CallAwaited(pc)
    /\ pc' = "raised"
    /\ UNCHANGED <<SERVER_STATE, effects, call, returned, query, max_iterations, system_prompt, tool_schemas, history,
                   next_message, iteration, tool_name, model_requests, tool_calls, log>>

Next ==
    \/ Start
    \/ MakeClient
    \/ Connect
    \/ Initialized
    \/ ToolsListed
    \/ IterationStart
    \/ Exhausted
    \/ ProtocolError
    \/ FinalAnswer
    \/ FunctionCall
    \/ ToolReturned
    \/ TransportFault

Spec == Init /\ [][Next]_vars

\* Every collaborator call ends (with a response or an exception) and the
\* loop keeps running until run_agent is left.
FairSpec == Spec /\ WF_vars(Next)

(***************************************************************************)
(* The functions of the client applied on their own, outside a run: one    *)
(* call of parse_agent_line, _convert_argument, _extract_schema,          *)
(* _build_tools_description or _call_tool, or one pass of run_agent's      *)
(* argument loop, with                                                     *)
(* arguments drawn from the sets below.  `call` holds the function's name  *)
(* and its arguments, `returned` is <<>> until the call ends and then      *)
(* holds its outcome.                                                      *)
(***************************************************************************)

\* The most `|`-separated segments a drawn function-call payload has.
MaxSegments == 3

\* The most properties a drawn input schema declares.
MaxProperties == 3

\* The most names a drawn `required` list holds.
MaxRequired == 2

\* The duplicate-free sequences of at most n elements of S.
DistinctSeqs(S, n) ==
    {q \in UNION {[1..k -> S] : k \in 0..n} :
        \A i, j \in 1..Len(q) : i # j => q[i] # q[j]}

\* Segments a model may write between the `|` of a payload.
DrawnSegments == {<<>>, <<"a">>, <<" ","b"," ">>, <<"1"," ","2">>}

\* What a model may write after the function-call marker.
DrawnPayloads ==
    {<<>>, <<" ">>} \cup
    {Join(<<"|">>, segs) : segs \in UNION {[1..k -> DrawnSegments] : k \in 1..MaxSegments}}

\* The lines parse_agent_line is applied to.
DrawnLines ==
    {lead \o marker \o payload \o trail :
        lead \in {<<>>, <<"\t"," ">>},
        marker \in {<<"F","U","N","C","T","I","O","N","_","C","A","L","L",":">>, <<"F","U","N","C","T","I","O","N","_","C","A","L","L",":"," ">>, <<"f","u","n","c","t","i","o","n","_","c","a","l","l",":"," ">>},
        payload \in DrawnPayloads,
        trail \in {<<>>, <<" ","\n">>}}
    \cup
    {lead \o final \o trail :
        lead \in {<<>>, <<" ">>},
        final \in {<<"F","I","N","A","L","_","A","N","S","W","E","R",":"," ","[","d","o","n","e","]">>, <<"f","i","n","a","l","_","a","n","s","w","e","r",":"," ","[","d","o","n","e","]">>,
                   <<"F","I","N","A","L","_","A","N","S","W","E","R",":"," ","[","D","O","N","E","]">>, <<"F","I","N","A","L","_","A","N","S","W","E","R",":"," ","[","d","o","n","e","]"," ","n","o","w">>,
                   <<"F","I","N","A","L","_","A","N","S","W","E","R",":","[","d","o","n","e","]">>, <<"F","I","N","A","L","_","A","N","S","W","E","R",":"," "," ","[","d","o","n","e","]">>,
                   <<"F","I","N","A","L","_","A","N","S","W","E","R",":"," ","[","d","o","n","e","]","|","a">>},
        trail \in {<<>>, <<"\n">>, <<".">>}}
    \cup
    {<<>>, <<" ">>, <<"\t","\n">>, <<"S","A","Y",":"," ","h","e","l","l","o"," ","w","o","r","l","d">>, <<"S","A","Y",":"," ","h","e","l","l","o">>,
     <<"x"," ","F","U","N","C","T","I","O","N","_","C","A","L","L",":"," ","a","|","b">>, <<"F","U","N","C","T","I","O","N","_","C","A","L","L">>,
     <<"F","U","N","C","T","I","O","N","_","C","A","L","L",":"," ","d","r","a","w","_","r","e","c","t","a","n","g","l","e","|","1","0","0","|","2","0","0","|","3","0","0","|","4","0","0">>,
     <<"F","U","N","C","T","I","O","N","_","C","A","L","L",":"," ","|","a","|","b">>}

\* The raw arguments and declared types _convert_argument is applied to.
DrawnValues ==
    {<<"4","2">>, <<"a","b","c">>, <<"3",".","0">>, <<"3",".","5">>, <<"-","7">>, <<"+","8">>, <<" ","9"," ">>, <<>>, <<"1","_","0","0","0">>,
     <<"1","e","2">>, <<"2",".","5","0">>, <<".","5">>, <<"5",".">>, <<"-","0",".","0">>, <<"i","n","f">>, <<"-","I","n","f","i","n","i","t","y">>, <<"n","a","n">>,
     <<"0","x","1","F">>, <<"1",".","5","e","1">>, <<"4",".","0","e","-","1">>, <<"-","-","1">>, <<"1","_","_","0">>, <<"1",".","2",".","3">>, <<"0","0","7">>, <<"1","2","a">>}

DrawnTypes == {<<"i","n","t","e","g","e","r">>, <<"n","u","m","b","e","r">>, <<"s","t","r","i","n","g">>, <<"b","o","o","l","e","a","n">>, <<"I","n","t","e","g","e","r">>, <<>>}

\* The tool descriptors _extract_schema is applied to: up to MaxProperties
\* properties declared in any order (a an integer, b without a type, c a
\* number), and a `required` list of up to MaxRequired distinct names, z
\* being one the properties do not declare.
DeclaredType(name) ==
    CASE name = <<"a">> -> <<"i","n","t","e","g","e","r">>
      [] name = <<"b">> -> None
      [] name = <<"c">> -> <<"n","u","m","b","e","r">>

DrawnProperties ==
    {[i \in 1..Len(names) |-> <<names[i], DeclaredType(names[i])>>] :
        names \in DistinctSeqs({<<"a">>, <<"b">>, <<"c">>}, MaxProperties)}

DrawnTools ==
    {Tool(<<"t">>, <<"d">>, TRUE, properties, required) :
        properties \in DrawnProperties,
        required \in DistinctSeqs({<<"a">>, <<"b">>, <<"z">>}, MaxRequired)}

\* The descriptors whose schema holds no `required` list, and one descriptor
\* that carries no schema at all.
DrawnToolsWithoutRequired ==
    {Tool(<<"t">>, <<"d">>, TRUE, properties, None) : properties \in DrawnProperties}
    \cup {Tool(<<"t">>, None, FALSE, <<>>, None)}

\* The most descriptors a drawn tool listing holds.
MaxTools == 2

\* The descriptors _build_tools_description is applied to: a schema with
\* properties and a `required` list, no schema at all, a mapping without
\* properties and without `required` under an empty description, a schema
\* without `required`, a second tool of the name t, and a schema whose one
\* property is the JSON value true.
DrawnDescriptors ==
    {Tool(<<"t">>, <<"d">>, TRUE, <<<<<<"a">>, <<"i","n","t","e","g","e","r">>>>, <<<<"b">>, None>>>>, <<<<"b">>, <<"z">>>>),
     Tool(<<"t">>, None, FALSE, <<>>, None),
     Tool(<<"u">>, <<>>, TRUE, <<>>, None),
     Tool(<<"u"," ","w">>, <<"d"," ","-",">"," ","e">>, TRUE, <<<<<<"c">>, <<"n","u","m","b","e","r">>>>>>, None),
     Tool(<<"v">>, <<"d">>, TRUE, <<<<<<"a">>, JsonTrue>>>>, None)}

\* The listings: every sequence of at most MaxTools such descriptors.
DrawnCatalogs == UNION {[1..k -> DrawnDescriptors] : k \in 0..MaxTools}

\* The most content items a drawn tool response holds.
MaxItems == 2

\* The content items of a tool response: the text and image objects of the
\* MCP client (an image object has no text attribute), and mappings that
\* carry or lack a type tag and a text.
DrawnContentItems ==
    {ContentItem("object", "text", <<" ","O","K">>),
     ContentItem("object", "text", <<"a","\n","b"," ","\n">>),
     ContentItem("object", "image", None),
     ContentItem("dict", "text", <<"c">>),
     ContentItem("dict", "text", None),
     ContentItem("dict", "image", <<"p","n","g">>)}

\* What session.call_tool may return to _call_tool: a response with up to
\* MaxItems content items, or one without the content attribute.
DrawnToolResponses ==
    {ToolResponse(TRUE, content, <<" ","r","e","p","r"," ","\n">>) :
        content \in UNION {[1..k -> DrawnContentItems] : k \in 0..MaxItems}}
    \cup {ToolResponse(FALSE, <<>>, <<" ","r","e","p","r"," ","\n">>)}

\* The most raw arguments a drawn directive carries.
MaxRawArgs == 3

\* The raw arguments of a directive: what parse_agent_line left between the
\* `|` of a function-call line.
DrawnRawArgs == UNION {[1..k -> {<<"1">>, <<"x">>}] : k \in 0..MaxRawArgs}

\* The descriptors whose schemas the argument loop is applied to: two
\* parameters of distinct names, no schema at all, one parameter named arg1,
\* and a `required` list that names its one parameter twice.
DrawnArgumentTools ==
    {Tool(<<"t">>, <<"d">>, TRUE, <<<<<<"a">>, <<"i","n","t","e","g","e","r">>>>, <<<<"b">>, None>>>>, <<<<"b">>>>),
     Tool(<<"t">>, None, FALSE, <<>>, None),
     Tool(<<"t">>, <<"d">>, TRUE, <<<<<<"a","r","g","1">>, <<"s","t","r","i","n","g">>>>>>, None),
     Tool(<<"t">>, <<"d">>, TRUE, <<<<<<"a">>, <<"i","n","t","e","g","e","r">>>>>>, <<<<"a">>, <<"a">>>>)}

Call(fn, args) == [fn |-> fn, args |-> args]

\* No run of run_agent is under way.
NoRun ==
    /\ pc = "idle"
    /\ query = <<>>
    /\ max_iterations = 0
    /\ logOpen = FALSE
    /\ sessionOpen = FALSE
    /\ outstanding = {}
    /\ system_prompt = <<>>
    /\ tool_schemas = <<>>
    /\ history = <<>>
    /\ next_message = <<>>
    /\ iteration = 0
    /\ tool_name = <<>>
    /\ model_requests = <<>>
    /\ tool_calls = <<>>
    /\ log = <<>>
    /\ exception = ""

runVars == <<pc, query, max_iterations, logOpen, sessionOpen, outstanding,
             system_prompt, tool_schemas, history, next_message, iteration,
             tool_name, model_requests, tool_calls, log, exception>>

UnitInit ==
    /\ NoRun
    /\ SERVER_STATE = InitialServerState
    /\ effects = <<>>
    /\ \/ \E line \in DrawnLines : call = Call("parse_agent_line", <<line>>)
       \/ \E value \in DrawnValues, type \in DrawnTypes :
             call = Call("_convert_argument", <<value, type>>)
       \/ \E tool \in DrawnTools : call = Call("_extract_schema", <<tool>>)
       \/ \E tool \in DrawnToolsWithoutRequired : call = Call("_extract_schema", <<tool>>)
       \/ \E tools \in DrawnCatalogs : call = Call("_build_tools_description", <<tools>>)
       \/ \E response \in DrawnToolResponses : call = Call("_call_tool", <<response>>)
       \/ \E raw_args \in DrawnRawArgs, tool \in DrawnArgumentTools :
             call = Call("arguments", <<raw_args, tool>>)
    /\ returned = <<>>

\* parse_agent_line(line) returns a directive or raises ValueError.
ParseAgentLine ==
    /\ call.fn = "parse_agent_line"
    /\ returned = <<>>
    /\ returned' = <<parse_agent_line(call.args[1])>>
    /\ UNCHANGED <<call, runVars, SERVER_STATE, effects>>

\* _convert_argument(value, schema_type) returns a value or raises ValueError.
ConvertArgument ==
    /\ call.fn = "_convert_argument"
    /\ returned = <<>>
    /\ returned' = <<_convert_argument(call.args[1], call.args[2])>>
    /\ UNCHANGED <<call, runVars, SERVER_STATE, effects>>

\* _extract_schema(tool) returns the ordered (name, type) pairs.
ExtractSchema ==
    /\ call.fn = "_extract_schema"
    /\ returned = <<>>
    /\ returned' = <<ExtractSchemaOutcome(call.args[1])>>
    /\ UNCHANGED <<call, runVars, SERVER_STATE, effects>>

\* _build_tools_description(tools) returns the listing text and the schema
\* table, or raises what _extract_schema raised; it is applied twice to the
\* same listing.
BuildToolsDescription ==
    /\ call.fn = "_build_tools_description"
    /\ Len(returned) < 2
    /\ returned' = Append(returned, BuildToolsDescriptionOutcome(call.args[1]))
    /\ UNCHANGED <<call, runVars, SERVER_STATE, effects>>

\* _call_tool returns the text of the response session.call_tool gave it.
CallToolAndExtract ==
    /\ call.fn = "_call_tool"
    /\ returned = <<>>
    /\ returned' = <<Returned(ToolResultText(call.args[1]))>>
    /\ UNCHANGED <<call, runVars, SERVER_STATE, effects>>

\* Lines 296-314 of run_agent on their own: the raw arguments of a directive
\* are stored one by one in the `arguments` dict under the keys the tool's
\* schema gives them; the dict is what call_tool is handed.
MapArguments ==
    /\ call.fn = "arguments"
    /\ returned = <<>>
    /\ \E schema \in {_extract_schema(call.args[2])} :
          returned' = <<Returned(BuildArguments(call.args[1], schema, Len(call.args[1])))>>
    /\ UNCHANGED <<call, runVars, SERVER_STATE, effects>>

UnitNext ==
    \/ ParseAgentLine
    \/ ConvertArgument
    \/ ExtractSchema
    \/ BuildToolsDescription
    \/ CallToolAndExtract
    \/ MapArguments

UnitSpec == UnitInit /\ [][UnitNext]_vars

(***************************************************************************)
(* The Keynote server: mcp_server_keynote.py and the AppleScript runner    *)
(* utils/applescript_runner.py.                                            *)
(*                                                                         *)
(* A tool is an operator of the server state, the tool's arguments and     *)
(* what the environment does for this call (the osascript process, the     *)
(* file system); it yields the text the tool returns, the server state     *)
(* after the call and the calls of run_applescript_file it made.  What     *)
(* _log_tool writes to the server's log stream is left out.                *)
\* Mutant: the exit status and the time limit are not looked at; whatever
\* the process wrote is returned.
run_applescript_file_Unchecked(path, process) == Returned(Strip(process.output))

(***************************************************************************)

\* Body(v), with v worked out once however often Body uses it.
With(v, Body(_)) == CHOOSE r \in {Body(w) : w \in {v}} : TRUE

\* str(n) for an integer.
IntToText(n) == IF n < 0 THEN <<"-">> \o NatToText(0 - n) ELSE NatToText(n)

\* What happens to one script run: the script file is missing, osascript
\* exits with a non-zero status, runs out of time, or ends well; output is
\* what it wrote to stdout and stderr.
Process(kind, output) == [kind |-> kind, output |-> output]

\* AS_DIR, without the directory the server is installed in.
AS_DIR == <<"a","p","p","l","e","s","c","r","i","p","t">>

\* _as(path)
_as(path) == AS_DIR \o <<"/">> \o path

\* run_applescript_file(path, args): the stripped output, or the exception
\* raised (FileNotFoundError for a missing script, AppleScriptError else).
run_applescript_file(path, process) ==
    CASE process.kind = "missing" ->
            Raised(<<"A","p","p","l","e","S","c","r","i","p","t"," ","f","i","l","e"," ","n","o","t"," ","f","o","u","n","d",":"," ">> \o path)
      [] process.kind = "exit" ->
            LET message == Strip(process.output) IN
            Raised(IF message # <<>> THEN message ELSE <<"A","p","p","l","e","S","c","r","i","p","t"," ","f","a","i","l","e","d",":"," ">> \o path)
      [] process.kind = "timeout" ->
            Raised(<<"A","p","p","l","e","S","c","r","i","p","t"," ","t","i","m","e","d"," ","o","u","t"," ","a","f","t","e","r"," ","1","5","s",":"," ">> \o path)
      [] process.kind = "ok" ->
            Returned(Strip(process.output))

\* One call of run_applescript_file, with what became of it.
ScriptRun(path, args, process) == [script |-> path, args |-> args, process |-> process]

\* int(f) for the float f that float() returned or the exception it raised:
\* the number cut off towards zero; ValueError for nan, OverflowError for
\* an infinity.
IntOfParsed(f) ==
    IF f.raised
    THEN [raised |-> TRUE, type |-> "ValueError", value |-> 0, error |-> f.error]
    ELSE IF Len(f.value) = 2
    THEN IF f.value[2] = "nan"
         THEN [raised |-> TRUE, type |-> "ValueError", value |-> 0,
               error |-> <<"c","a","n","n","o","t"," ","c","o","n","v","e","r","t"," ","f","l","o","a","t"," ","N","a","N"," ","t","o"," ","i","n","t","e","g","e","r">>]
         ELSE [raised |-> TRUE, type |-> "OverflowError", value |-> 0,
               error |-> <<"c","a","n","n","o","t"," ","c","o","n","v","e","r","t"," ","f","l","o","a","t"," ","i","n","f","i","n","i","t","y"," ","t","o"," ","i","n","t","e","g","e","r">>]
    ELSE LET m == f.value[2]
             d == Pow10(0 - f.value[3])
         IN  [raised |-> FALSE, type |-> "", error |-> <<>>,
              value |-> IF m >= 0 THEN m \div d ELSE 0 - ((0 - m) \div d)]

\* int(float(text))
IntOfFloat(text) == With(text, LAMBDA t : With(ParseFloat(t), IntOfParsed))

IsNonEmpty(p) == p # <<>>

\* [p for p in parts if p]
NonEmptyParts(parts) == SelectSeq(parts, IsNonEmpty)

\* _parse_dimensions(raw): the width and the height, or the exception.
_parse_dimensions(raw) ==
    With(NonEmptyParts(Split(raw, "|")), LAMBDA parts :
    IF Len(parts) < 2
    THEN [raised |-> TRUE, width |-> 0, height |-> 0,
          error |-> <<"U","n","e","x","p","e","c","t","e","d"," ","s","l","i","d","e"," ","s","i","z","e"," ","p","a","y","l","o","a","d",":"," ">> \o raw]
    ELSE With(IntOfFloat(parts[1]), LAMBDA width :
         With(IntOfFloat(parts[2]), LAMBDA height :
             IF width.raised
             THEN [raised |-> TRUE, width |-> 0, height |-> 0, error |-> width.error]
             ELSE IF height.raised
             THEN [raised |-> TRUE, width |-> 0, height |-> 0, error |-> height.error]
             ELSE [raised |-> FALSE, width |-> width.value, height |-> height.value,
                   error |-> <<>>])))

\* {"width": width, "height": height}, each number tagged as the coerced
\* integers are.
SlideDims(width, height) == [width |-> <<"int", width>>, height |-> <<"int", height>>]

\* What a tool call comes to: the text returned, the server state after it
\* and the script runs it made.
ToolOutcome(result, state, runs) == [result |-> result, state |-> state, runs |-> runs]

\* f"ERROR: {exc}"
ErrorResult(exc) == <<"E","R","R","O","R",":"," ">> \o exc

\* raw.split("|", 2)[2] for a raw text with at least two bars.
AfterSecondBar(raw) ==
    DropFirst(raw, Nth({i \in 1..Len(raw) : raw[i] = "|"}, 2))

\* The document mode open_keynote passes on: the environment's value,
\* stripped and lower-cased, or reuse_or_create when that is neither mode.
DocumentMode(mode_env) ==
    LET mode == LowerText(Strip(mode_env)) IN
    IF mode \in {<<"r","e","u","s","e","_","o","r","_","c","r","e","a","t","e">>, <<"a","l","w","a","y","s","_","n","e","w">>} THEN mode ELSE <<"r","e","u","s","e","_","o","r","_","c","r","e","a","t","e">>

\* open_keynote()
open_keynote(state, theme, mode_env, process) ==
    LET path == _as(<<"o","p","e","n","_","k","e","y","n","o","t","e",".","a","p","p","l","e","s","c","r","i","p","t">>)
        runs == <<ScriptRun(path, <<theme, DocumentMode(mode_env)>>, process)>>
    IN  With(run_applescript_file(path, process), LAMBDA raw :
        IF raw.raised THEN ToolOutcome(ErrorResult(raw.error), state, runs)
        ELSE With(_parse_dimensions(raw.value), LAMBDA dims :
             IF dims.raised THEN ToolOutcome(ErrorResult(dims.error), state, runs)
             ELSE ToolOutcome(
                    IF Cardinality({i \in 1..Len(raw.value) : raw.value[i] = "|"}) >= 2
                    THEN <<"K","E","Y","N","O","T","E","_","R","E","A","D","Y","_","W","I","T","H","_","W","A","R","N","I","N","G",":"," ","s","l","i","d","e","=","1",","," ","s","l","i","d","e","_","w","i","d","t","h","=">> \o IntToText(dims.width)
                         \o <<","," ","s","l","i","d","e","_","h","e","i","g","h","t","=">> \o IntToText(dims.height)
                         \o <<","," ","n","o","t","e","=">> \o AfterSecondBar(raw.value)
                    ELSE <<"K","E","Y","N","O","T","E","_","R","E","A","D","Y",":"," ","s","l","i","d","e","=","1",","," ","s","l","i","d","e","_","w","i","d","t","h","=">> \o IntToText(dims.width)
                         \o <<","," ","s","l","i","d","e","_","h","e","i","g","h","t","=">> \o IntToText(dims.height),
                    [state EXCEPT !.last_slide_dims = SlideDims(dims.width, dims.height)],
                    runs)))

\* get_slide_size()
get_slide_size(state, process) ==
    LET path == _as(<<"g","e","t","_","s","l","i","d","e","_","s","i","z","e",".","a","p","p","l","e","s","c","r","i","p","t">>)
        runs == <<ScriptRun(path, <<>>, process)>>
    IN  With(run_applescript_file(path, process), LAMBDA raw :
        IF raw.raised THEN ToolOutcome(ErrorResult(raw.error), state, runs)
        ELSE With(_parse_dimensions(raw.value), LAMBDA dims :
             IF dims.raised THEN ToolOutcome(ErrorResult(dims.error), state, runs)
             ELSE ToolOutcome(
                    <<"S","L","I","D","E","_","S","I","Z","E",":"," ","w","i","d","t","h","=">> \o IntToText(dims.width)
                         \o <<","," ","h","e","i","g","h","t","=">> \o IntToText(dims.height),
                    [state EXCEPT !.last_slide_dims = SlideDims(dims.width, dims.height)],
                    runs)))

\* draw_rectangle(x, y, width, height)
draw_rectangle(state, x, y, width, height, process) ==
    LET path == _as(<<"d","r","a","w","_","r","e","c","t","a","n","g","l","e",".","a","p","p","l","e","s","c","r","i","p","t">>)
        runs == <<ScriptRun(path, <<IntToText(x), IntToText(y), IntToText(width), IntToText(height)>>, process)>>
        raw  == run_applescript_file(path, process)
    IN  IF raw.raised THEN ToolOutcome(ErrorResult(raw.error), state, runs)
        ELSE LET rect_id == Strip(raw.value) IN
             ToolOutcome(
                <<"R","E","C","T","A","N","G","L","E","_","O","K",":"," ","i","d","=">> \o rect_id \o <<","," ","x","=">> \o IntToText(x) \o <<","," ","y","=">> \o IntToText(y)
                    \o <<","," ","w","i","d","t","h","=">> \o IntToText(width) \o <<","," ","h","e","i","g","h","t","=">> \o IntToText(height),
                [state EXCEPT !.last_rectangle_id = rect_id],
                runs)

\* Mutant: the rectangle context is not asked for.
HasRectangleContext_Always(rect_id) == TRUE

\* `not rect_id` is false: an id other than None and the empty text.
HasRectangleContext(rect_id) == rect_id # None /\ rect_id # <<>>

\* Mutant: the text is passed on as it came.
SafeText_AsReceived(text) == text

\* text.replace("¦", "|")
SafeText(text) == [i \in 1..Len(text) |-> IF text[i] = "¦" THEN "|" ELSE text[i]]

\* add_text_in_keynote(text)
add_text_in_keynote(state, text, process) ==
    LET rect_id == state.last_rectangle_id IN
    IF ~HasRectangleContext(rect_id)
    THEN ToolOutcome(<<"E","R","R","O","R",":"," ","N","o"," ","r","e","c","t","a","n","g","l","e"," ","c","o","n","t","e","x","t","."," ","C","a","l","l"," ","d","r","a","w","_","r","e","c","t","a","n","g","l","e"," ","f","i","r","s","t",".">>, state, <<>>)
    ELSE LET safe_text == SafeText(text)
             path == _as(<<"a","d","d","_","t","e","x","t","_","i","n","_","k","e","y","n","o","t","e",".","a","p","p","l","e","s","c","r","i","p","t">>)
             runs == <<ScriptRun(path, <<rect_id, safe_text>>, process)>>
         IN  With(run_applescript_file(path, process), LAMBDA raw :
             IF raw.raised THEN ToolOutcome(ErrorResult(raw.error), state, runs)
             ELSE With(IntOfFloat(raw.value), LAMBDA counted :
                  IF counted.raised /\ counted.type # "ValueError"
                  THEN ToolOutcome(ErrorResult(counted.error), state, runs)
                  ELSE LET char_count == IF counted.raised THEN Len(safe_text)
                                         ELSE counted.value
                       IN  ToolOutcome(<<"T","E","X","T","_","O","K",":"," ","i","d","=">> \o rect_id \o <<","," ","c","h","a","r","a","c","t","e","r","s","=">>
                                          \o IntToText(char_count),
                                       state, runs)))

\* The home directory and the working directory of the server process.
Home == <<"/","U","s","e","r","s","/","u">>
Cwd == <<"/","s","r","v">>

\* os.path.abspath(os.path.expanduser(path)) for a path without `.` and
\* `..` segments: `~` becomes the home directory, a relative path is put
\* under the working directory.
ExpandedPath(path) ==
    IF path = <<"~">> \/ StartsWith(path, <<"~","/">>) THEN Home \o DropFirst(path, 1)
    ELSE IF StartsWith(path, <<"/">>) THEN path
    ELSE Cwd \o <<"/">> \o path

\* os.path.dirname(path) of an absolute path.
Dirname(path) ==
    LET last == CHOOSE i \in 1..Len(path) :
                    path[i] = "/" /\ \A j \in (i + 1)..Len(path) : path[j] # "/"
    IN  IF last = 1 THEN <<"/">> ELSE SubSeq(path, 1, last - 1)

\* screenshot_slide(path); dir_made is FALSE when the directory is missing
\* and os.makedirs raises PermissionError.
screenshot_slide(state, path, dir_made, process) ==
    LET expanded_path == ExpandedPath(path)
        script == _as(<<"e","x","p","o","r","t","_","s","l","i","d","e","_","p","n","g",".","a","p","p","l","e","s","c","r","i","p","t">>)
        runs == <<ScriptRun(script, <<expanded_path>>, process)>>
        raw  == run_applescript_file(script, process)
    IN  IF ~dir_made
        THEN ToolOutcome(ErrorResult(<<"[","E","r","r","n","o"," ","1","3","]"," ","P","e","r","m","i","s","s","i","o","n"," ","d","e","n","i","e","d",":"," ">> \o Repr(Dirname(expanded_path))),
                         state, <<>>)
        ELSE IF raw.raised THEN ToolOutcome(ErrorResult(raw.error), state, runs)
        ELSE ToolOutcome(<<"S","C","R","E","E","N","S","H","O","T","_","S","A","V","E","D",":"," ","p","a","t","h","=">> \o raw.value, state, runs)

(***************************************************************************)
(* The Keynote server at work: any sequence of tool calls from the state   *)
(* the module is loaded with.  `call` is the last tool call, `returned`    *)
(* what it returned, `effects` the script runs it made.                    *)
(***************************************************************************)

\* The ways a script run fails.
FailedProcesses ==
    {Process("missing", <<>>), Process("timeout", <<>>),
     Process("exit", <<"e","x","e","c","u","t","i","o","n"," ","e","r","r","o","r",":"," ","K","e","y","n","o","t","e"," ","g","o","t"," ","a","n"," ","e","r","r","o","r","."," ","(","-","1","7","2","8",")","\n">>),
     Process("exit", <<" ","\n">>)}

\* What the scripts that report the slide size may print.
SizeOutputs ==
    {<<"1","9","2","0","|","1","0","8","0","\n">>, <<"1","0","2","4","|","7","6","8","|","t","h","e","m","e"," ","m","i","s","s","i","n","g">>, <<"1","e","3","|","7",".","9">>, <<"|","-","3",".","5","|","2","|">>,
     <<"o","o","p","s">>, <<"1","2","|","x">>, <<"i","n","f","|","1">>, <<>>}

\* What the drawing script may print: the id of the shape, or nothing.
IdOutputs == {<<"R","E","C","T","-","1","\n">>, <<"7">>, <<>>}

\* What the text script may print: the number of characters, or not.
CountOutputs == {<<"1","2">>, <<"5",".","7">>, <<"d","o","n","e">>, <<"i","n","f">>, <<"n","a","n">>}

\* What the export script may print.
PathOutputs == {<<"/","U","s","e","r","s","/","u","/","D","e","s","k","t","o","p","/","s",".","p","n","g">>}

\* KEYNOTE_THEME is not set; KEYNOTE_DOCUMENT_MODE is not set or holds one
\* of these.
DrawnTheme == <<"W","h","i","t","e">>
DrawnModes == {<<"r","e","u","s","e","_","o","r","_","c","r","e","a","t","e">>, <<" ","A","l","w","a","y","s","_","N","e","w"," ">>, <<"n","e","w">>}

\* The rectangles a client asks for.
DrawnRectangles == {<<100, 200, 300, 150>>, <<0 - 5, 0, 1, 1>>}

\* What a model writes where it wants the text `original` placed: the text
\* with every `|` replaced by `¦`, as the system prompt demands.
EscapedForCall(original) ==
    [i \in 1..Len(original) |-> IF original[i] = "|" THEN "¦" ELSE original[i]]

\* The texts users want placed (none holds `¦`).
OriginalTexts ==
    {<<"H","e","l","l","o"," ","|"," ","w","o","r","l","d">>, <<"a","|","b","|","|","c">>, <<" "," ","p","a","d","d","e","d","\t">>, <<"|">>, <<>>, <<" ">>, <<"H","e","l","l","o"," ","f","r","o","m"," ","M","C","P"," ","o","n"," ","m","a","c","O","S",".">>}

\* The argument the client passes to add_text_in_keynote for a text the model
\* writes after `FUNCTION_CALL: add_text_in_keynote|`: the one argument
\* parse_agent_line returns, which a parameter of type string takes
\* unconverted.
ClientArgument(written) ==
    _convert_argument(
        parse_agent_line(<<"F","U","N","C","T","I","O","N","_","C","A","L","L",":"," ","a","d","d","_","t","e","x","t","_","i","n","_","k","e","y","n","o","t","e","|">> \o written).value.arguments[1],
        <<"s","t","r","i","n","g">>).value[2]

\* The texts add_text_in_keynote is called with: what the client passes for
\* each original text, and a text that itself holds a broken bar.
DrawnTexts ==
    {ClientArgument(EscapedForCall(original)) : original \in OriginalTexts}
    \cup {<<"x","¦","y","|","z">>}

\* The paths screenshot_slide is called with.
DrawnPaths == {<<"~","/","D","e","s","k","t","o","p","/","t","e","s","t",".","p","n","g">>, <<"/","t","m","p","/","s",".","p","n","g">>, <<"o","u","t","/","s",".","p","n","g">>}

KeynoteInit ==
    /\ NoRun
    /\ SERVER_STATE = InitialServerState
    /\ effects = <<>>
    /\ call = Call("mcp.run", <<>>)
    /\ returned = <<>>

\* The tool call ended: the server holds the new state and the client the
\* returned text.
Served(fn, args, outcome) ==
    /\ call' = Call(fn, args)
    /\ returned' = <<Returned(outcome.result)>>
    /\ SERVER_STATE' = outcome.state
    /\ effects' = outcome.runs
    /\ UNCHANGED runVars

OpenKeynote ==
    \E mode_env \in DrawnModes :
    \E process \in FailedProcesses \cup {Process("ok", o) : o \in SizeOutputs} :
    \E outcome \in {open_keynote(SERVER_STATE, DrawnTheme, mode_env, process)} :
        Served("open_keynote", <<>>, outcome)

GetSlideSize ==
    \E process \in FailedProcesses \cup {Process("ok", o) : o \in SizeOutputs} :
    \E outcome \in {get_slide_size(SERVER_STATE, process)} :
        Served("get_slide_size", <<>>, outcome)

DrawRectangle ==
    \E r \in DrawnRectangles :
    \E process \in FailedProcesses \cup {Process("ok", o) : o \in IdOutputs} :
    \E outcome \in {draw_rectangle(SERVER_STATE, r[1], r[2], r[3], r[4], process)} :
        Served("draw_rectangle", r, outcome)

AddTextInKeynote ==
    \E text \in DrawnTexts :
    \E process \in FailedProcesses \cup {Process("ok", o) : o \in CountOutputs} :
    \E outcome \in {add_text_in_keynote(SERVER_STATE, text, process)} :
        Served("add_text_in_keynote", <<text>>, outcome)

ScreenshotSlide ==
    \E path \in DrawnPaths, dir_made \in BOOLEAN :
    \E process \in FailedProcesses \cup {Process("ok", o) : o \in PathOutputs} :
    \E outcome \in {screenshot_slide(SERVER_STATE, path, dir_made, process)} :
        Served("screenshot_slide", <<path>>, outcome)

KeynoteNext ==
    \/ OpenKeynote
    \/ GetSlideSize
    \/ DrawRectangle
    \/ AddTextInKeynote
    \/ ScreenshotSlide

KeynoteSpec == KeynoteInit /\ [][KeynoteNext]_vars

(***************************************************************************)
(* The Gmail server: gmail_bonus/mcp_server_gmail.py.                      *)
(*                                                                         *)
(* send_email is called with keyword arguments, a sequence of <<name,      *)
(* value>> pairs.  The environment of a call says what building the Gmail  *)
(* service and sending through it come to: build_error and send_error are  *)
(* None or the message of the exception raised, response is what execute() *)
(* returns, sender is GMAIL_SENDER or None.  An outcome is what the call    *)
(* returned or raised, with the uses of the Gmail service it made.         *)
(***************************************************************************)

KwNames(kwargs) == {kwargs[i][1] : i \in 1..Len(kwargs)}

KwValue(kwargs, name) ==
    kwargs[CHOOSE i \in 1..Len(kwargs) : kwargs[i][1] = name][2]

\* A message: its content type, its To, From and Subject headers, its parts.
Message(content_type, to, from, subject, parts) ==
    <<content_type, to, from, subject, parts>>

NoMessage == Message(<<>>, <<>>, None, <<>>, <<>>)

\* A part of a message: its content type and its content.
MessagePart(content_type, content) == <<content_type, content>>

\* _encode_message(to_addr, subject, body, from_addr): the message whose
\* bytes are encoded; set_content makes it a text/plain message.
_encode_message(to_addr, subject, body, from_addr) ==
    Message(<<"t","e","x","t","/","p","l","a","i","n">>, to_addr, from_addr, subject,
            <<MessagePart(<<"t","e","x","t","/","p","l","a","i","n">>, body)>>)

\* One use of the Gmail service: building it, or sending a message.
GmailEvent(op, message) == <<op, message>>

SendOutcome(raised, value, error, events) ==
    [raised |-> raised, value |-> value, error |-> error, events |-> events]

\* Mutant: the recipient is not looked at.
IsAddress_Any(to) == TRUE

\* "@" in (to or "")
IsAddress(to) == to # None /\ \E i \in 1..Len(to) : to[i] = "@"

\* (resp or {}).get("id") or "unknown"
MessageId(response) ==
    IF response.is_none \/ response.id = None \/ response.id = <<>>
    THEN <<"u","n","k","n","o","w","n">> ELSE response.id

\* send_email(to, subject, body) called with the keywords kwargs, each of
\* to, subject and body among them: a keyword the signature does not have
\* makes the call raise TypeError before the function is entered.
send_email(kwargs, env) ==
    IF KwNames(kwargs) # {<<"t","o">>, <<"s","u","b","j","e","c","t">>, <<"b","o","d","y">>}
    THEN SendOutcome(TRUE, None,
            <<"s","e","n","d","_","e","m","a","i","l","(",")"," ","g","o","t"," ","a","n"," ","u","n","e","x","p","e","c","t","e","d"," ","k","e","y","w","o","r","d"," ","a","r","g","u","m","e","n","t"," ","'">>
                \o (CHOOSE n \in KwNames(kwargs) \ {<<"t","o">>, <<"s","u","b","j","e","c","t">>, <<"b","o","d","y">>} : TRUE) \o <<"'">>,
            <<>>)
    ELSE LET to      == KwValue(kwargs, <<"t","o">>)
             subject == KwValue(kwargs, <<"s","u","b","j","e","c","t">>)
             body    == KwValue(kwargs, <<"b","o","d","y">>)
             built   == GmailEvent("build", NoMessage)
             sent    == GmailEvent("send", _encode_message(to, subject, body, env.sender))
         IN  IF ~IsAddress(to)
             THEN SendOutcome(FALSE, <<"E","R","R","O","R",":"," ","I","n","v","a","l","i","d"," ","\"","t","o","\""," ","a","d","d","r","e","s","s",".">>, None, <<>>)
             ELSE IF env.build_error # None
             THEN SendOutcome(FALSE, <<"E","R","R","O","R",":"," ">> \o env.build_error, None, <<built>>)
             ELSE IF env.send_error # None
             THEN SendOutcome(FALSE, <<"E","R","R","O","R",":"," ">> \o env.send_error, None, <<built, sent>>)
             ELSE SendOutcome(FALSE, <<"E","M","A","I","L","_","S","E","N","T",":"," ","t","o","=">> \o to \o <<","," ","i","d","=">> \o MessageId(env.response),
                              None, <<built, sent>>)

(***************************************************************************)
(* The Gmail server at work: any sequence of send_email calls.             *)
(***************************************************************************)

\* The recipients, subjects and bodies send_email is called with; body_html
\* is what build_log_email_payload adds for a log with an HTML rendering.
DrawnRecipients == {<<"a","@","b",".","c">>, <<"b","o","b">>, <<"@">>, <<>>, None}
DrawnBodies == {<<"R","u","n"," ","l","o","g">>, <<>>}
DrawnHtml == <<"<","p",">","R","u","n"," ","l","o","g","<","/","p",">">>

DrawnKwargs ==
    {<<<<<<"t","o">>, to>>, <<<<"s","u","b","j","e","c","t">>, <<"A","g","e","n","t"," ","l","o","g">>>>, <<<<"b","o","d","y">>, body>>>> :
        to \in DrawnRecipients, body \in DrawnBodies}
    \cup {<<<<<<"t","o">>, to>>, <<<<"s","u","b","j","e","c","t">>, <<"A","g","e","n","t"," ","l","o","g">>>>, <<<<"b","o","d","y">>, body>>, <<<<"b","o","d","y","_","h","t","m","l">>, DrawnHtml>>>> :
        to \in DrawnRecipients, body \in DrawnBodies}

\* What the Gmail service does for a call.
DrawnGmailEnvs ==
    {[response |-> resp, sender |-> sender, build_error |-> be, send_error |-> se] :
        be \in {None, <<"G","m","a","i","l"," ","O","A","u","t","h"," ","c","l","i","e","n","t"," ","f","i","l","e"," ","n","o","t"," ","f","o","u","n","d"," ","a","t"," ","/","s","r","v","/","g","m","a","i","l","_","c","r","e","d","e","n","t","i","a","l","s",".","j","s","o","n","."," ","D","o","w","n","l","o","a","d"," ","i","t"," ","f","r","o","m"," ","G","o","o","g","l","e"," ","C","l","o","u","d"," ","C","o","n","s","o","l","e"," ","(","O","A","u","t","h"," ","2",".","0"," ","C","l","i","e","n","t"," ","I","D",","," ","D","e","s","k","t","o","p"," ","a","p","p",")",".">>},
        se \in {None, <<"<","H","t","t","p","E","r","r","o","r"," ","4","0","3"," ","q","u","o","t","a"," ","e","x","c","e","e","d","e","d",">">>},
        resp \in {[is_none |-> FALSE, id |-> <<"1","8","c","2","f">>], [is_none |-> FALSE, id |-> None],
                  [is_none |-> FALSE, id |-> <<>>], [is_none |-> TRUE, id |-> None]},
        sender \in {None, <<"m","e","@","b",".","c">>}}

GmailInit ==
    /\ NoRun
    /\ SERVER_STATE = InitialServerState
    /\ effects = <<>>
    /\ call = Call("mcp.run", <<>>)
    /\ returned = <<>>

\* One call of send_email: the client holds what it returned or raised.
SendEmail ==
    \E kwargs \in DrawnKwargs, env \in DrawnGmailEnvs :
    \E outcome \in {send_email(kwargs, env)} :
        /\ call' = Call("send_email", <<kwargs, env>>)
        /\ returned' = <<[raised |-> outcome.raised, value |-> outcome.value, error |-> outcome.error]>>
        /\ effects' = outcome.events
        /\ UNCHANGED <<SERVER_STATE, runVars>>

GmailNext == SendEmail

GmailSpec == GmailInit /\ [][GmailNext]_vars

(***************************************************************************)
(* The run log: the lines RunLogger.log writes to agent.log and what       *)
(* parse_log_line of email_payload.py reads back from one of them.  A log  *)
(* entry is <<timestamp, metadata, message>>.                              *)
(***************************************************************************)

\* _utc_timestamp() at the n-th call of RunLogger.log: the clock's reading
\* formatted as %Y-%m-%dT%H:%M:%S.%f cut to milliseconds.
TimestampAt(n) == <<"2","0","2","4","-","0","5","-","0","1","T","1","0",":","0","0",":","0","0",".","0">> \o NatToText(n \div 10) \o NatToText(n % 10)

\* uuid4().hex[:8]
RunIds == {<<"a","b","c","d","1","2","3","4">>, <<"0","0","f","f","0","0","f","f">>}

\* f"[{timestamp}Z][client][run_id={self.run_id}] {message}"
LogLine(timestamp, run_id, message) ==
    <<"[">> \o timestamp \o <<"Z","]","[","c","l","i","e","n","t","]","[","r","u","n","_","i","d","=">> \o run_id \o <<"]"," ">> \o message

\* The text appended to agent.log by the first n calls of RunLogger.log:
\* each line followed by "\n".
RECURSIVE LogFile(_, _, _)
LogFile(messages, run_id, n) ==
    IF n = 0 THEN <<>>
    ELSE LogFile(messages, run_id, n - 1)
         \o LogLine(TimestampAt(n), run_id, messages[n]) \o <<"\n">>

\* str.lstrip()
LStrip(s) ==
    IF Inked(s) = {} THEN <<>>
    ELSE DropFirst(s, (CHOOSE i \in Inked(s) : \A j \in Inked(s) : i <= j) - 1)

\* The while loop of parse_log_line: the bracketed segments at the front of
\* remainder are taken off one by one; <<segments, remainder>> as the loop
\* leaves them.
RECURSIVE TakeSegments(_, _)
TakeSegments(segments, remainder) ==
    IF remainder # <<>> /\ Head(remainder) = "[" /\ \E i \in 1..Len(remainder) : remainder[i] = "]"
    THEN LET end == CHOOSE i \in 1..Len(remainder) :
                        /\ remainder[i] = "]"
                        /\ \A j \in 1..(i - 1) : remainder[j] # "]"
         IN  TakeSegments(Append(segments, SubSeq(remainder, 2, end - 1)),
                          LStrip(DropFirst(remainder, end)))
    ELSE <<segments, remainder>>

\* parse_log_line(raw_line): the entry, or None for an empty line.
parse_log_line(raw_line) ==
    LET stripped == Strip(raw_line) IN
    IF stripped = <<>> THEN None
    ELSE LET taken     == TakeSegments(<<>>, stripped)
             segments  == taken[1]
             remainder == taken[2]
         IN  IF segments = <<>> /\ remainder = <<>> THEN None
             ELSE <<IF segments # <<>> THEN segments[1] ELSE <<>>,
                    IF segments # <<>> THEN Tail(segments) ELSE <<>>,
                    remainder>>

(***************************************************************************)
(* Vocabulary of the properties.                                           *)
(***************************************************************************)

UserTurnCount(h) == Cardinality({i \in 1..Len(h) : h[i].role = "user"})

ModelTurnCount(h) == Cardinality({i \in 1..Len(h) : h[i].role = "model"})

LastTurn(h) == h[Len(h)]

IsPrefix(a, b) == Len(a) <= Len(b) /\ SubSeq(b, 1, Len(a)) = a

\* The number of iterations a cap allows.
CapOrZero == IF max_iterations > 0 THEN max_iterations ELSE 0

\* The line parses as the final answer.
IsFinalAnswer(line) ==
    LET p == parse_agent_line(line) IN ~p.raised /\ p.value.kind = "final_answer"

\* The line parses as a function call.
IsFunctionCall(line) ==
    LET p == parse_agent_line(line) IN ~p.raised /\ p.value.kind = "function_call"

\* The line does not parse.
IsProtocolError(line) == parse_agent_line(line).raised

\* This step appends a model turn to history.
ModelTurnAppended ==
    /\ Len(history') = Len(history) + 1
    /\ LastTurn(history').role = "model"

\* The correction the spec gives for a line that does not parse.
CorrectionFor(line) ==
    <<"U","n","r","e","c","o","g","n","i","z","e","d"," ","r","e","s","p","o","n","s","e"," ","(">> \o parse_agent_line(line).error
        \o <<")","."," ","P","l","e","a","s","e"," ","f","o","l","l","o","w"," ","t","h","e"," ","p","r","o","t","o","c","o","l",".">>

ProtocolWord == <<"p","r","o","t","o","c","o","l">>

\* The feedback line the spec gives for a tool's text.
ToolResultLine(name, text) == <<"T","O","O","L","_","R","E","S","U","L","T"," ">> \o name \o <<":"," ">> \o text

\* The exceptions that leave run_agent after the session was opened.
CollaboratorFaults == {"initialize", "list_tools", "generate", "call_tool"}

\* The exceptions raised before the session is opened.
SetupFaults == {"GEMINI_API_KEY", "genai.Client", "stdio_client"}

(***************************************************************************)
(* C1: for every cap N the run makes at most N model requests and always   *)
(* ends; it ends in raised only because a collaborator call raised, and    *)
(* reaching the cap ends it in exhausted, not in an exception.             *)
(***************************************************************************)
C1_BoundedAndTerminates ==
    /\ [](Len(model_requests) <= CapOrZero)
    /\ <>(pc \in Terminal)
    /\ [](pc = "raised" => exception \in CollaboratorFaults \cup SetupFaults)
    /\ [](pc \in {"done", "exhausted"} => exception = "")
    /\ [][(pc = "loop" /\ iteration >= max_iterations)
            => (pc' = "exhausted" /\ exception' = "")]_vars

\* The cap was reached: MaxIter requests were made and the run ended.
C1_Witness ==
    /\ pc = "exhausted"
    /\ max_iterations = MaxIter
    /\ Len(model_requests) = MaxIter

(***************************************************************************)
(* C2: with a cap N >= 1, a run in which no model line is the final answer *)
(* and no call raises ends in exhausted after exactly N iterations: N      *)
(* model requests, N user turns and N model turns.                         *)
(***************************************************************************)
NoFinalAnswerSeen ==
    \A i \in 1..Len(history) :
        history[i].role = "model" => ~IsFinalAnswer(history[i].text)

ExactlyCapIterations ==
    /\ iteration = max_iterations
    /\ Len(model_requests) = max_iterations
    /\ UserTurnCount(history) = max_iterations
    /\ ModelTurnCount(history) = max_iterations

C2_ExhaustedAfterCap ==
    /\ []((max_iterations >= 1 /\ pc \in Terminal /\ exception = "" /\ NoFinalAnswerSeen)
            => (pc = "exhausted" /\ ExactlyCapIterations))
    /\ [](pc = "exhausted" /\ max_iterations >= 1 => NoFinalAnswerSeen)
    /\ <>(pc \in {"done", "raised"} \/ (pc = "exhausted" /\ iteration = CapOrZero))

\* Every one of MaxIter iterations was a protocol error, and the run ended
\* in exhausted.
C2_Witness ==
    /\ pc = "exhausted"
    /\ max_iterations = MaxIter
    /\ Len(history) = 2 * MaxIter
    /\ \A i \in 1..Len(history) :
          history[i].role = "model" => IsProtocolError(history[i].text)

(***************************************************************************)
(* C3: a final-answer line in iteration k ends the run in done at once: k  *)
(* model requests were made, history holds k user and k model turns, and   *)
(* no tool call or model request follows.                                  *)
(***************************************************************************)
C3_DoneAtFinalAnswer ==
    /\ [](pc = "done" =>
            /\ 1 <= iteration /\ iteration <= max_iterations
            /\ Len(model_requests) = iteration
            /\ UserTurnCount(history) = iteration
            /\ ModelTurnCount(history) = iteration
            /\ LastTurn(history).role = "model"
            /\ IsFinalAnswer(LastTurn(history).text)
            /\ outstanding = {})
    /\ [][(ModelTurnAppended /\ IsFinalAnswer(LastTurn(history').text))
            => /\ pc' = "done"
               /\ tool_calls' = tool_calls
               /\ model_requests' = model_requests]_vars
    /\ [][pc # "done"]_vars

\* The final answer came in iteration 1: one user turn, one model turn.
C3_Witness ==
    /\ pc = "done"
    /\ iteration = 1
    /\ Len(history) = 2
    /\ history[1].role = "user"
    /\ history[2] = Turn("model", FINAL_ANSWER_LINE)

(***************************************************************************)
(* C4: a line that does not parse raises nothing and calls no tool in its  *)
(* iteration; the next outbound user message is the correction text, which *)
(* holds the word "protocol", and it is sent in the very next iteration.   *)
(***************************************************************************)
C4_ProtocolErrorRecovered ==
    \A k \in 1..iteration :
        (Len(history) >= 2 * k /\ IsProtocolError(history[2 * k].text)) =>
            /\ \A c \in 1..Len(tool_calls) : tool_calls[c].iteration # k
            /\ Contains(CorrectionFor(history[2 * k].text), ProtocolWord)
            /\ Len(history) = 2 * k =>
                  /\ iteration = k
                  /\ pc \in {"loop", "exhausted"}
                  /\ exception = ""
                  /\ next_message = CorrectionFor(history[2 * k].text)
            /\ Len(history) > 2 * k =>
                  /\ history[2 * k + 1] = Turn("user", CorrectionFor(history[2 * k].text))
                  /\ Contains(history[2 * k + 1].text, ProtocolWord)
                  /\ model_requests[k + 1].iteration = k + 1

\* `SAY: hello` was answered by a correction, which the model answered by a
\* call without a name; that too is answered by a correction, and no tool
\* was called.
C4_Witness ==
    /\ Len(history) = 4
    /\ history[2].text = <<"S","A","Y",":"," ","h","e","l","l","o">>
    /\ history[4].text = <<"F","U","N","C","T","I","O","N","_","C","A","L","L",":"," ","|","a">>
    /\ Contains(history[3].text, ProtocolWord)
    /\ Contains(next_message, ProtocolWord)
    /\ iteration = 2
    /\ tool_calls = <<>>
    /\ pc = "loop"

(***************************************************************************)
(* C5: a tool response that reports a failure neither raises nor stops the *)
(* loop: the next outbound message is TOOL_RESULT <name>: <text>, built as *)
(* for a success, and the model is asked again if the cap permits; so      *)
(* every outbound message after the first is a TOOL_RESULT line or the     *)
(* correction derived from the previous iteration.                         *)
(***************************************************************************)
\* The outbound messages that may follow a given model line.
FeedbackFor(line) ==
    IF IsProtocolError(line) THEN {CorrectionFor(line)}
    ELSE IF IsFunctionCall(line)
    THEN {ToolResultLine(parse_agent_line(line).value.name, ToolResultText(r)) :
            r \in ToolResponses}
    ELSE {}

C5_UniformFeedback ==
    /\ [](Len(history) >= 1 => history[1] = Turn("user", query))
    /\ [](\A k \in 1..iteration :
            /\ Len(history) >= 2 * k + 1 =>
                  history[2 * k + 1].text \in FeedbackFor(history[2 * k].text)
            /\ (Len(history) = 2 * k /\ pc = "loop") =>
                  next_message \in FeedbackFor(history[2 * k].text))
    /\ [][(pc = "awaiting_tool" /\ exception' = "")
            => (pc' = "loop" /\ next_message' \in FeedbackFor(LastTurn(history).text))]_vars
    /\ [][(pc = "loop" /\ iteration < max_iterations)
            => (pc' = "awaiting_model"
                /\ LastTurn(history') = Turn("user", next_message))]_vars

\* The tool answered `ERROR: no`; the text went out as a TOOL_RESULT line and
\* the model answered it.
C5_Witness ==
    /\ Len(history) >= 4
    /\ history[3] = Turn("user", <<"T","O","O","L","_","R","E","S","U","L","T"," ","d","r","a","w",":"," ","E","R","R","O","R",":"," ","n","o">>)
    /\ history[4].role = "model"
    /\ exception = ""

(***************************************************************************)
(* C6: once the session was opened, every way out of run_agent (done,      *)
(* exhausted, or an exception of a collaborator call) leaves the session   *)
(* channel and the run log closed; an exception is caught nowhere: it ends *)
(* the run.                                                                *)
(***************************************************************************)
C6_ReleasedOnEveryExit ==
    /\ (pc \in {"done", "exhausted"} \/ exception \in CollaboratorFaults)
          => (~sessionOpen /\ ~logOpen /\ outstanding = {})
    /\ exception # "" => pc = "raised"
    /\ pc \in {"initializing", "listing", "loop", "awaiting_model", "awaiting_tool"}
          => (sessionOpen /\ logOpen)

\* A tool call raised in the middle of a run: the exception left run_agent
\* and both resources are closed.
C6_Witness ==
    /\ pc = "raised"
    /\ exception = "call_tool"
    /\ Len(history) >= 2
    /\ ~sessionOpen
    /\ ~logOpen

(***************************************************************************)
(* C7: history is append-only: a step appends at most one entry and        *)
(* changes none, roles alternate user, model, each iteration adds one user *)
(* turn and at most one model turn, and the length never exceeds twice the *)
(* cap.                                                                    *)
(***************************************************************************)
C7_HistoryAppendOnly ==
    /\ [][IsPrefix(history, history') /\ Len(history') <= Len(history) + 1]_vars
    /\ [](\A i \in 1..Len(history) :
            history[i].role = IF i % 2 = 1 THEN "user" ELSE "model")
    /\ [](UserTurnCount(history) = iteration)
    /\ [](ModelTurnCount(history) \in {iteration - 1, iteration})
    /\ [](Len(history) <= 2 * CapOrZero)

\* History reached its largest size, twice the cap.
C7_Witness ==
    /\ max_iterations = MaxIter
    /\ Len(history) = 2 * MaxIter

(***************************************************************************)
(* C8: the loop is sequential: at most one collaborator request is         *)
(* outstanding; a tool call is issued only in the step that received and   *)
(* parsed the model's response, and a model request only when nothing is   *)
(* outstanding, so after the previous tool call returned.                  *)
(***************************************************************************)
C8_Sequential ==
    /\ [](Cardinality(outstanding) <= 1)
    /\ [](outstanding = {"model"} <=> pc = "awaiting_model")
    /\ [](outstanding = {"tool"} <=> pc = "awaiting_tool")
    /\ [][Len(tool_calls') > Len(tool_calls)
            => /\ outstanding = {"model"}
               /\ outstanding' = {"tool"}
               /\ ModelTurnAppended
               /\ IsFunctionCall(LastTurn(history').text)]_vars
    /\ [][Len(model_requests') > Len(model_requests)
            => /\ outstanding = {}
               /\ outstanding' = {"model"}
               /\ pc = "loop"]_vars

\* The second iteration's tool call is outstanding, after the first
\* iteration's tool call returned.
C8_Witness ==
    /\ outstanding = {"tool"}
    /\ iteration = 2
    /\ Len(tool_calls) = 2

(***************************************************************************)
(* C9: an iteration makes at most one tool call, and only when its line    *)
(* parsed as a function call naming that tool; so the tool calls never     *)
(* outnumber the model requests.                                           *)
(***************************************************************************)
C9_OneCallPerFunctionCall ==
    /\ \A a, b \in 1..Len(tool_calls) :
          a < b => tool_calls[a].iteration < tool_calls[b].iteration
    /\ \A c \in 1..Len(tool_calls) :
          LET k == tool_calls[c].iteration IN
          /\ 1 <= k /\ k <= iteration
          /\ Len(history) >= 2 * k
          /\ IsFunctionCall(history[2 * k].text)
          /\ parse_agent_line(history[2 * k].text).value.name = tool_calls[c].name
    /\ Len(tool_calls) <= Len(model_requests)

\* A run with a protocol error and then a function call made one tool call
\* in two iterations.
C9_Witness ==
    /\ pc = "exhausted"
    /\ iteration = 2
    /\ Len(tool_calls) = 1
    /\ tool_calls[1].iteration = 2
    /\ IsProtocolError(history[2].text)

(***************************************************************************)
(* C10: only the first line of the model's extracted reply is used: every  *)
(* model turn is the first line of a reply, and what the step does with it *)
(* (correction, completion, or tool call with its arguments) is decided by *)
(* that line alone.                                                        *)
(***************************************************************************)
IsFirstLineOf(line, raw) ==
    /\ \A i \in 1..Len(line) : line[i] \notin LineBreaks
    /\ IsPrefix(line, raw)
    /\ Len(line) = Len(raw) \/ raw[Len(line) + 1] \in LineBreaks

C10_FirstLineOnly ==
    /\ [](\A i \in 1..Len(history) :
            history[i].role = "model" =>
                \E r \in ModelResponses :
                    IsFirstLineOf(history[i].text, _extract_response_text(r)))
    /\ [][ModelTurnAppended =>
            LET line == LastTurn(history').text
                p    == parse_agent_line(line)
            IN  IF p.raised
                THEN /\ pc' = "loop"
                     /\ next_message' = CorrectionFor(line)
                     /\ tool_calls' = tool_calls
                ELSE IF p.value.kind = "final_answer"
                THEN /\ pc' = "done"
                     /\ tool_calls' = tool_calls
                ELSE /\ pc' = "awaiting_tool"
                     /\ tool_name' = p.value.name
                     /\ Len(tool_calls') = Len(tool_calls) + 1
                     /\ LastTurn(tool_calls').name = p.value.name
                     /\ LastTurn(tool_calls').arguments =
                            BuildArguments(p.value.arguments,
                                           SchemaFor(tool_schemas, p.value.name),
                                           Len(p.value.arguments))]_vars

\* The reply `FUNCTION_CALL: open` followed by a second line `SAY: hello`
\* became the model turn `FUNCTION_CALL: open` and a call of open.
C10_Witness ==
    /\ Len(history) >= 2
    /\ history[2] = Turn("model", <<"F","U","N","C","T","I","O","N","_","C","A","L","L",":"," ","o","p","e","n">>)
    /\ Len(tool_calls) >= 1
    /\ tool_calls[1].name = <<"o","p","e","n">>
    /\ tool_calls[1].arguments = <<>>

(***************************************************************************)
(* Vocabulary of the properties of the tool calls.                         *)
(***************************************************************************)

\* The model line that caused the c-th tool call, and what it parses to.
CallLine(c) == history[2 * tool_calls[c].iteration].text

CallDirective(c) == parse_agent_line(CallLine(c)).value

\* The parameters the schema table declares for the tool of the c-th call
\* (none when the table does not hold the tool).
CallSchema(c) ==
    LET name == CallDirective(c).name IN
    IF \E t \in 1..Len(tool_schemas) : tool_schemas[t][1] = name
    THEN (CHOOSE item \in {tool_schemas[t] : t \in 1..Len(tool_schemas)} : item[1] = name)[2]
    ELSE <<>>

\* The raw text coerced to the declared type, or the raw text itself when it
\* cannot be coerced.
TypedOrRaw(raw, type) ==
    LET r == _convert_argument(raw, type) IN
    IF r.raised THEN <<"str", raw>> ELSE r.value

\* The name given to the argument at 0-based position i beyond the schema.
SynthName(i) == <<"a", "r", "g", Digits[i + 1]>>

\* Every function-call line received so far led to a tool call, in its own
\* iteration, and no exception was raised over it.
EveryFunctionCallIsMade ==
    /\ exception # "RuntimeError"
    /\ \A k \in 1..iteration :
          (Len(history) >= 2 * k /\ IsFunctionCall(history[2 * k].text)) =>
              \E c \in 1..Len(tool_calls) :
                  /\ tool_calls[c].iteration = k
                  /\ tool_calls[c].name = parse_agent_line(history[2 * k].text).value.name

(***************************************************************************)
(* C11: a function call with exactly as many raw arguments as the tool's   *)
(* schema declares calls the tool by the directive's name with a mapping   *)
(* that binds the i-th parameter name to the i-th raw argument coerced to  *)
(* the parameter's type: `FUNCTION_CALL: draw|1|2.0` against (x: integer,  *)
(* w: number) calls draw(x=1, w=2).                                        *)
(***************************************************************************)
C11_ExactCountBinding ==
    \A c \in 1..Len(tool_calls) :
        LET d      == CallDirective(c)
            schema == CallSchema(c)
            sent   == tool_calls[c].arguments
        IN  /\ Len(d.arguments) = Len(schema) =>
                  /\ tool_calls[c].name = d.name
                  /\ Len(sent) = Len(schema)
                  /\ \A i \in 1..Len(schema) :
                        sent[i] = <<schema[i][1], TypedOrRaw(d.arguments[i], schema[i][2])>>
            /\ CallLine(c) = <<"F","U","N","C","T","I","O","N","_","C","A","L","L",":"," ","d","r","a","w","|","1","|","2",".","0">> =>
                  /\ tool_calls[c].name = <<"d","r","a","w">>
                  /\ sent = << <<<<"x">>, <<"int", 1>>>>, <<<<"w">>, <<"int", 2>>>> >>

\* `FUNCTION_CALL: draw|1|2.0` was received and draw is being called with
\* x = 1 and w = 2.
C11_Witness ==
    /\ pc = "awaiting_tool"
    /\ LastTurn(history) = Turn("model", <<"F","U","N","C","T","I","O","N","_","C","A","L","L",":"," ","d","r","a","w","|","1","|","2",".","0">>)
    /\ LastTurn(tool_calls).name = <<"d","r","a","w">>
    /\ LastTurn(tool_calls).arguments = << <<<<"x">>, <<"int", 1>>>>, <<<<"w">>, <<"int", 2>>>> >>

(***************************************************************************)
(* C12: a count mismatch raises nothing and blocks no call: of k raw       *)
(* arguments against n parameters every one is sent; argument i < n under  *)
(* the schema's name and type at position i, argument i >= n as text under *)
(* the name arg<i>; with k < n only the first k parameters are supplied.   *)
(***************************************************************************)
C12_MismatchTolerated ==
    /\ EveryFunctionCallIsMade
    /\ \A c \in 1..Len(tool_calls) :
        LET d      == CallDirective(c)
            schema == CallSchema(c)
            sent   == tool_calls[c].arguments
            k      == Len(d.arguments)
            n      == Len(schema)
        IN  /\ k # n =>
                  /\ Len(sent) = k
                  /\ \A i \in 1..k :
                        IF i <= n
                        THEN sent[i] = <<schema[i][1], TypedOrRaw(d.arguments[i], schema[i][2])>>
                        ELSE sent[i] = <<SynthName(i - 1), <<"str", d.arguments[i]>>>>
            /\ CallLine(c) = <<"F","U","N","C","T","I","O","N","_","C","A","L","L",":"," ","d","r","a","w","|","1","|","2",".","5","|","3","|","4","|","5">> =>
                  sent = << <<<<"x">>, <<"int", 1>>>>, <<<<"w">>, <<"float", 25, 0 - 1>>>>,
                            <<<<"a","r","g","2">>, <<"str", <<"3">>>>>>, <<<<"a","r","g","3">>, <<"str", <<"4">>>>>>,
                            <<<<"a","r","g","4">>, <<"str", <<"5">>>>>> >>
            /\ CallLine(c) = <<"F","U","N","C","T","I","O","N","_","C","A","L","L",":"," ","d","r","a","w","|","7">> =>
                  sent = << <<<<"x">>, <<"int", 7>>>> >>

\* Five raw arguments were received for the two parameters of draw: five
\* values are sent, the last three named arg2, arg3 and arg4; the mismatch
\* was logged.
C12_Witness ==
    /\ pc = "awaiting_tool"
    /\ LastTurn(history) = Turn("model", <<"F","U","N","C","T","I","O","N","_","C","A","L","L",":"," ","d","r","a","w","|","1","|","2",".","5","|","3","|","4","|","5">>)
    /\ Len(LastTurn(tool_calls).arguments) = 5
    /\ LastTurn(tool_calls).arguments[5] = <<<<"a","r","g","4">>, <<"str", <<"5">>>>>>
    /\ \E l \in 1..Len(log) : log[l] = <<"a","r","g","u","m","e","n","t","_","m","i","s","m","a","t","c","h"," ","t","o","o","l","=","d","r","a","w"," ","e","x","p","e","c","t","e","d","=","2"," ","r","e","c","e","i","v","e","d","=","5">>

(***************************************************************************)
(* C13: a raw argument that cannot be coerced to its declared integer or   *)
(* number type does not abort the call: the tool is called, that argument  *)
(* carries its raw text and the other arguments are coerced as usual.      *)
(***************************************************************************)
C13_CoercionFailureKeepsRaw ==
    /\ EveryFunctionCallIsMade
    /\ \A c \in 1..Len(tool_calls) :
        LET d      == CallDirective(c)
            schema == CallSchema(c)
            sent   == tool_calls[c].arguments
        IN  /\ Len(sent) = Len(d.arguments)
            /\ \A i \in 1..Len(sent) :
                  LET type == IF i <= Len(schema) THEN schema[i][2] ELSE <<"s","t","r","i","n","g">>
                      r    == _convert_argument(d.arguments[i], type)
                  IN  IF r.raised
                      THEN /\ type \in {<<"i","n","t","e","g","e","r">>, <<"n","u","m","b","e","r">>}
                           /\ sent[i][2] = <<"str", d.arguments[i]>>
                      ELSE sent[i][2] = r.value
            /\ CallLine(c) = <<"F","U","N","C","T","I","O","N","_","C","A","L","L",":"," ","d","r","a","w","|","a","|","2",".","5">> =>
                  sent = << <<<<"x">>, <<"str", <<"a">>>>>>, <<<<"w">>, <<"float", 25, 0 - 1>>>> >>

\* `a` was received for the integer x of draw: draw is being called with the
\* text `a` for x and 2.5 for w, and the failure was logged.
C13_Witness ==
    /\ pc = "awaiting_tool"
    /\ LastTurn(history) = Turn("model", <<"F","U","N","C","T","I","O","N","_","C","A","L","L",":"," ","d","r","a","w","|","a","|","2",".","5">>)
    /\ LastTurn(tool_calls).name = <<"d","r","a","w">>
    /\ LastTurn(tool_calls).arguments[1] = <<<<"x">>, <<"str", <<"a">>>>>>
    /\ LastTurn(tool_calls).arguments[2] = <<<<"w">>, <<"float", 25, 0 - 1>>>>
    /\ \E l \in 1..Len(log) :
          StartsWith(log[l], <<"a","r","g","u","m","e","n","t","_","p","a","r","s","e","_","e","r","r","o","r"," ","t","o","o","l","=","d","r","a","w"," ","a","r","g","=","x"," ","v","a","l","u","e","=","a"," ","e","r","r","o","r","=">>)

(***************************************************************************)
(* C14: a function call naming a tool the schema table does not hold is    *)
(* no error: the tool is called by that name, with every raw argument as   *)
(* text under the names arg0, arg1, ...                                    *)
(***************************************************************************)
C14_UnknownToolHasNoParameters ==
    /\ EveryFunctionCallIsMade
    /\ \A c \in 1..Len(tool_calls) :
        LET d    == CallDirective(c)
            sent == tool_calls[c].arguments
        IN  /\ (\A t \in 1..Len(tool_schemas) : tool_schemas[t][1] # d.name) =>
                  /\ tool_calls[c].name = d.name
                  /\ sent = [i \in 1..Len(d.arguments) |->
                                <<SynthName(i - 1), <<"str", d.arguments[i]>>>>]
            /\ CallLine(c) = <<"F","U","N","C","T","I","O","N","_","C","A","L","L",":"," ","z","a","p","|","a">> =>
                  /\ tool_calls[c].name = <<"z","a","p">>
                  /\ sent = << <<<<"a","r","g","0">>, <<"str", <<"a">>>>>> >>

\* `FUNCTION_CALL: zap|a` was received with no tool zap listed: zap is being
\* called with arg0 = `a`.
C14_Witness ==
    /\ pc = "awaiting_tool"
    /\ LastTurn(history) = Turn("model", <<"F","U","N","C","T","I","O","N","_","C","A","L","L",":"," ","z","a","p","|","a">>)
    /\ \A t \in 1..Len(tool_schemas) : tool_schemas[t][1] # <<"z","a","p">>
    /\ LastTurn(tool_calls).name = <<"z","a","p">>
    /\ LastTurn(tool_calls).arguments = << <<<<"a","r","g","0">>, <<"str", <<"a">>>>>> >>
(***************************************************************************)
(* Vocabulary of the properties of the functions applied on their own.     *)
(* Trimming and splitting are spelled here a second time, by recursion     *)
(* from the ends of the text, apart from Strip and Split above.            *)
(***************************************************************************)

RECURSIVE TrimLeft(_)
TrimLeft(s) ==
    IF s = <<>> \/ Head(s) \notin {" ", "\t", "\n", "\r", "\f"} THEN s
    ELSE TrimLeft(Tail(s))

RECURSIVE TrimRight(_)
TrimRight(s) ==
    IF s = <<>> \/ s[Len(s)] \notin {" ", "\t", "\n", "\r", "\f"} THEN s
    ELSE TrimRight(SubSeq(s, 1, Len(s) - 1))

Trimmed(s) == TrimRight(TrimLeft(s))

\* The texts between the `|` of s, in order.
RECURSIVE Segments(_)
Segments(s) ==
    IF \A i \in 1..Len(s) : s[i] # "|" THEN <<s>>
    ELSE LET bar == CHOOSE i \in 1..Len(s) :
                        s[i] = "|" /\ \A j \in 1..(i - 1) : s[j] # "|"
         IN  <<SubSeq(s, 1, bar - 1)>> \o Segments(SubSeq(s, bar + 1, Len(s)))

Marker == <<"F","U","N","C","T","I","O","N","_","C","A","L","L",":">>

FinalLiteral == <<"F","I","N","A","L","_","A","N","S","W","E","R",":"," ","[","d","o","n","e","]">>

\* The line, trimmed, begins with the function-call marker.
BeginsWithMarker(line) ==
    LET t == Trimmed(line) IN Len(t) >= Len(Marker) /\ SubSeq(t, 1, Len(Marker)) = Marker

\* What follows the marker, trimmed.
PayloadOf(line) ==
    LET t == Trimmed(line) IN Trimmed(SubSeq(t, Len(Marker) + 1, Len(t)))

\* The first segment of the payload, trimmed.
NameSegment(line) == Trimmed(Segments(PayloadOf(line))[1])

\* The segments after the first, each trimmed.
ArgumentSegments(line) ==
    LET segs == Segments(PayloadOf(line)) IN
    [i \in 1..(Len(segs) - 1) |-> Trimmed(segs[i + 1])]

\* A call of the named function has ended.
Ended(fn) == call.fn = fn /\ returned # <<>>

Outcome == returned[1]

(***************************************************************************)
(* C15, as the spec states it: every non-empty line that begins with the   *)
(* function-call marker and has a non-empty payload parses to a            *)
(* function_call whose name is the first segment, trimmed, and whose       *)
(* arguments are the remaining segments, each trimmed, in order.           *)
(***************************************************************************)
C15_AsStated ==
    (/\ Ended("parse_agent_line")
     /\ call.args[1] # <<>>
     /\ BeginsWithMarker(call.args[1])
     /\ PayloadOf(call.args[1]) # <<>>) =>
        /\ ~Outcome.raised
        /\ Outcome.value.kind = "function_call"
        /\ Outcome.value.name = NameSegment(call.args[1])
        /\ Outcome.value.arguments = ArgumentSegments(call.args[1])

(***************************************************************************)
(* C15, amended: every non-empty line that begins with the function-call   *)
(* marker and has a payload whose first segment, trimmed, is not empty     *)
(* parses to a function_call whose name is that segment and whose          *)
(* arguments are the remaining segments, each trimmed, in order;           *)
(* whitespace around the line is ignored and a payload without `|` gives   *)
(* the empty argument list.                                                *)
(***************************************************************************)
C15_FunctionCallParsed ==
    /\ (/\ Ended("parse_agent_line")
        /\ call.args[1] # <<>>
        /\ BeginsWithMarker(call.args[1])
        /\ PayloadOf(call.args[1]) # <<>>
        /\ NameSegment(call.args[1]) # <<>>) =>
           /\ ~Outcome.raised
           /\ Outcome.value.kind = "function_call"
           /\ Outcome.value.name = NameSegment(call.args[1])
           /\ Outcome.value.arguments = ArgumentSegments(call.args[1])
           /\ (\A i \in 1..Len(call.args[1]) : call.args[1][i] # "|")
                 => Outcome.value.arguments = <<>>
    /\ (Ended("parse_agent_line")
        /\ call.args[1] = <<"F","U","N","C","T","I","O","N","_","C","A","L","L",":"," ","d","r","a","w","_","r","e","c","t","a","n","g","l","e","|","1","0","0","|","2","0","0","|","3","0","0","|","4","0","0">>) =>
           Outcome.value = [kind |-> "function_call", name |-> <<"d","r","a","w","_","r","e","c","t","a","n","g","l","e">>,
                            arguments |-> <<<<"1","0","0">>, <<"2","0","0">>, <<"3","0","0">>, <<"4","0","0">>>>]

\* A line with whitespace around it and inside its segments was parsed: the
\* name is a, the arguments are b and `1 2`.
C15_Witness ==
    /\ Ended("parse_agent_line")
    /\ call.args[1] = <<"\t"," ","F","U","N","C","T","I","O","N","_","C","A","L","L",":"," ","a","|"," ","b"," ","|","1"," ","2"," ","\n">>
    /\ Outcome = [raised |-> FALSE, error |-> None,
                  value |-> [kind |-> "function_call", name |-> <<"a">>,
                             arguments |-> <<<<"b">>, <<"1"," ","2">>>>]]

(***************************************************************************)
(* C16: `FINAL_ANSWER: [done]` parses to final_answer with name None and   *)
(* arguments None; another casing or trailing content raises; so           *)
(* final_answer comes out only for a line that, trimmed, is the literal.   *)
(***************************************************************************)
C16_FinalAnswerExact ==
    Ended("parse_agent_line") =>
        /\ (~Outcome.raised /\ Outcome.value.kind = "final_answer")
              <=> (Trimmed(call.args[1]) = FinalLiteral)
        /\ Trimmed(call.args[1]) = FinalLiteral =>
              Outcome.value = [kind |-> "final_answer", name |-> None, arguments |-> None]
        /\ call.args[1] \in {<<"f","i","n","a","l","_","a","n","s","w","e","r",":"," ","[","d","o","n","e","]">>, <<"F","I","N","A","L","_","A","N","S","W","E","R",":"," ","[","D","O","N","E","]">>,
                             <<"F","I","N","A","L","_","A","N","S","W","E","R",":"," ","[","d","o","n","e","]"," ","n","o","w">>, <<"F","I","N","A","L","_","A","N","S","W","E","R",":"," ","[","d","o","n","e","]",".">>,
                             <<"F","I","N","A","L","_","A","N","S","W","E","R",":"," ","[","d","o","n","e","]","|","a">>, <<"F","I","N","A","L","_","A","N","S","W","E","R",":","[","d","o","n","e","]">>} =>
              (Outcome.raised /\ Outcome.value = None)

\* The literal was parsed: final_answer, no name, no arguments.
C16_Witness ==
    /\ Ended("parse_agent_line")
    /\ call.args[1] = <<"F","I","N","A","L","_","A","N","S","W","E","R",":"," ","[","d","o","n","e","]">>
    /\ Outcome = [raised |-> FALSE, error |-> None,
                  value |-> [kind |-> "final_answer", name |-> None, arguments |-> None]]

(***************************************************************************)
(* C17: parse_agent_line raises ValueError and returns no directive for an *)
(* empty or whitespace-only line, for the marker followed by whitespace    *)
(* only, for a payload whose first segment is empty, and for a line that   *)
(* neither begins with the marker nor is the final-answer literal.         *)
(***************************************************************************)
C17_MalformedLineRaises ==
    Ended("parse_agent_line") =>
        LET line == call.args[1] IN
        /\ (\/ Trimmed(line) = <<>>
            \/ BeginsWithMarker(line) /\ PayloadOf(line) = <<>>
            \/ BeginsWithMarker(line) /\ PayloadOf(line) # <<>> /\ NameSegment(line) = <<>>
            \/ ~BeginsWithMarker(line) /\ Trimmed(line) # FinalLiteral) =>
               /\ Outcome.raised
               /\ Outcome.value = None
               /\ Outcome.error # None
        /\ line \in {<<>>, <<" ">>, <<"F","U","N","C","T","I","O","N","_","C","A","L","L",":"," ">>, <<"F","U","N","C","T","I","O","N","_","C","A","L","L",":"," ","|","a","|","b">>,
                     <<"S","A","Y",":"," ","h","e","l","l","o"," ","w","o","r","l","d">>} =>
               Outcome.raised

\* `FUNCTION_CALL: |a|b` was parsed: the call raised for the missing name.
C17_Witness ==
    /\ Ended("parse_agent_line")
    /\ call.args[1] = <<"F","U","N","C","T","I","O","N","_","C","A","L","L",":"," ","|","a","|","b">>
    /\ Outcome.raised
    /\ Outcome.error = <<"F","U","N","C","T","I","O","N","_","C","A","L","L"," ","m","i","s","s","i","n","g"," ","f","u","n","c","t","i","o","n"," ","n","a","m","e">>

(***************************************************************************)
(* C18: a directive parse_agent_line returns has one of the two kinds: a   *)
(* function_call has a non-empty name and a list of arguments (maybe       *)
(* empty), a final_answer has name None and arguments None.                *)
(***************************************************************************)
C18_DirectiveShape ==
    (Ended("parse_agent_line") /\ ~Outcome.raised) =>
        LET d == Outcome.value IN
        /\ d.kind \in {"function_call", "final_answer"}
        /\ d.kind = "function_call" =>
              /\ d.name # None
              /\ d.name # <<>>
              /\ d.arguments # None
              /\ \A i \in 1..Len(d.arguments) : d.arguments[i] = Trimmed(d.arguments[i])
        /\ d.kind = "final_answer" =>
              /\ d.name = None
              /\ d.arguments = None

\* A function call without arguments was returned: its argument list is
\* the empty list, not None.
C18_Witness ==
    /\ Ended("parse_agent_line")
    /\ call.args[1] = <<"F","U","N","C","T","I","O","N","_","C","A","L","L",":"," ","a">>
    /\ ~Outcome.raised
    /\ Outcome.value.kind = "function_call"
    /\ Outcome.value.name = <<"a">>
    /\ Outcome.value.arguments = <<>>
(***************************************************************************)
(* C19: _convert_argument coerces by the declared type: "integer" reads a  *)
(* base-10 integer ("42" gives 42) and raises for another literal ("abc",  *)
(* "3.0"); "number" reads a number and narrows it to an integer when it    *)
(* has no fractional part ("3.0" gives 3, "3.5" stays 3.5); any other type *)
(* returns the raw text unchanged.                                         *)
(***************************************************************************)
\* The text is a run of decimal digits.
AllDigits(s) ==
    s # <<>> /\ \A i \in 1..Len(s) : s[i] \in {"0", "1", "2", "3", "4", "5", "6", "7", "8", "9"}

\* The number a run of decimal digits writes.
RECURSIVE Decimal(_)
Decimal(s) ==
    IF s = <<>> THEN 0
    ELSE 10 * Decimal(SubSeq(s, 1, Len(s) - 1))
         + (CHOOSE d \in 0..9 : <<"0", "1", "2", "3", "4", "5", "6", "7", "8", "9">>[d + 1] = s[Len(s)])

\* A value with a fractional part, or no finite value at all.
IsFractional(v) ==
    /\ v[1] = "float"
    /\ \/ Len(v) = 2 /\ v[2] \in {"inf", "-inf", "nan"}
       \/ Len(v) = 3 /\ v[3] < 0 /\ v[2] % 10 # 0

C19_CoercionByType ==
    Ended("_convert_argument") =>
        LET value == call.args[1]
            type  == call.args[2]
        IN  /\ type \notin {<<"i","n","t","e","g","e","r">>, <<"n","u","m","b","e","r">>} =>
                  Outcome = [raised |-> FALSE, value |-> <<"str", value>>, error |-> None]
            /\ type = <<"i","n","t","e","g","e","r">> =>
                  /\ ~Outcome.raised => Outcome.value[1] = "int"
                  /\ (\E i \in 1..Len(value) : value[i] \in {".", "a", "b", "c", "e", "x", "f", "n"})
                        => Outcome.raised
            /\ type = <<"n","u","m","b","e","r">> =>
                  (Outcome.raised \/ Outcome.value[1] = "int" \/ IsFractional(Outcome.value))
            /\ (type \in {<<"i","n","t","e","g","e","r">>, <<"n","u","m","b","e","r">>} /\ AllDigits(Trimmed(value))) =>
                  Outcome = [raised |-> FALSE, value |-> <<"int", Decimal(Trimmed(value))>>, error |-> None]
            /\ (value = <<"4","2">> /\ type = <<"i","n","t","e","g","e","r">>) =>
                  Outcome.value = <<"int", 42>>
            /\ (value \in {<<"a","b","c">>, <<"3",".","0">>, <<"3",".","5">>} /\ type = <<"i","n","t","e","g","e","r">>) =>
                  (Outcome.raised /\ Outcome.value = None)
            /\ (value = <<"3",".","0">> /\ type = <<"n","u","m","b","e","r">>) =>
                  Outcome.value = <<"int", 3>>
            /\ (value = <<"3",".","5">> /\ type = <<"n","u","m","b","e","r">>) =>
                  Outcome.value = <<"float", 35, 0 - 1>>
            /\ (value = <<"a","b","c">> /\ type = <<"n","u","m","b","e","r">>) =>
                  Outcome.raised

\* "3.0" was coerced as a number: the integer 3 came out.
C19_Witness ==
    /\ Ended("_convert_argument")
    /\ call.args = <<<<"3",".","0">>, <<"n","u","m","b","e","r">>>>
    /\ Outcome = [raised |-> FALSE, value |-> <<"int", 3>>, error |-> None]

(***************************************************************************)
(* C20: the schema list built for a tool is a permutation of the tool's    *)
(* declared parameters (the names its properties or its required list      *)
(* hold) in which every required parameter precedes every optional one;    *)
(* the required ones stand in the order of the required list, the optional *)
(* ones in the order the properties declare them; a parameter with no      *)
(* declared type has type "string".                                        *)
(***************************************************************************)
\* The position of a name in a sequence of names.
PositionIn(names, name) == CHOOSE k \in 1..Len(names) : names[k] = name

C20_RequiredFirstInOrder ==
    Ended("_extract_schema") =>
        LET tool       == call.args[1]
            listed     == Outcome.value
            properties == tool.schema.properties
            required   == IF tool.schema.required = None THEN <<>> ELSE tool.schema.required
            declared   == [i \in 1..Len(properties) |-> properties[i][1]]
            Req        == {required[i] : i \in 1..Len(required)}
            Decl       == {declared[i] : i \in 1..Len(declared)}
            names      == [i \in 1..Len(listed) |-> listed[i][1]]
        IN  /\ ~Outcome.raised
            /\ ~tool.schema.is_dict => listed = <<>>
            /\ tool.schema.is_dict =>
                  /\ {names[i] : i \in 1..Len(names)} = Req \cup Decl
                  /\ Len(names) = Cardinality(Req \cup Decl)
                  /\ \A i, j \in 1..Len(names) :
                        i < j =>
                           /\ names[j] \in Req => names[i] \in Req
                           /\ (names[i] \in Req /\ names[j] \in Req) =>
                                 PositionIn(required, names[i]) < PositionIn(required, names[j])
                           /\ (names[i] \notin Req /\ names[j] \notin Req) =>
                                 PositionIn(declared, names[i]) < PositionIn(declared, names[j])
                  /\ \A i \in 1..Len(listed) :
                        listed[i][2] =
                           IF names[i] \in Decl /\ properties[PositionIn(declared, names[i])][2] # None
                           THEN properties[PositionIn(declared, names[i])][2]
                           ELSE <<"s","t","r","i","n","g">>

\* The properties c, a, b with b and a required, in that order, were
\* listed as b, a, c; b, which declares no type, is a string.
C20_Witness ==
    /\ Ended("_extract_schema")
    /\ call.args[1].schema.properties =
          << <<<<"c">>, <<"n","u","m","b","e","r">>>>, <<<<"a">>, <<"i","n","t","e","g","e","r">>>>, <<<<"b">>, None>> >>
    /\ call.args[1].schema.required = <<<<"b">>, <<"a">>>>
    /\ Outcome.value = << <<<<"b">>, <<"s","t","r","i","n","g">>>>, <<<<"a">>, <<"i","n","t","e","g","e","r">>>>, <<<<"c">>, <<"n","u","m","b","e","r">>>> >>
(***************************************************************************)
(* The tool catalog within a run.                                          *)
(***************************************************************************)

\* The log lines that report a tool listing.
ListingLines == {i \in 1..Len(log) : StartsWith(log[i], <<"t","o","o","l","s"," ","l","i","s","t","e","d",":"," ">>)}

\* C24: the tool list is fetched exactly once per run and before the first
\* iteration; the system instruction and the schema table built from it are
\* changed by no step of any iteration, a returning tool call included, and
\* every model request of the run carries that one system instruction.
C24_CatalogFixedForTheRun ==
    /\ [](/\ Cardinality(ListingLines) <= 1
          /\ model_requests # <<>> =>
                /\ ListingLines = {1}
                /\ \E tools \in ToolListings :
                      /\ log[1] = <<"t","o","o","l","s"," ","l","i","s","t","e","d",":"," ">> \o ToolNames(tools)
                      /\ system_prompt = FormatSystemPrompt(_build_tools_description(tools).text)
                      /\ tool_schemas = _build_tools_description(tools).schemas
                /\ \A i \in 1..Len(model_requests) :
                      model_requests[i].system_instruction = system_prompt)
    /\ [][/\ ("list_tools" \in outstanding' /\ "list_tools" \notin outstanding)
                => (iteration = 0 /\ model_requests = <<>> /\ ListingLines = {})
          /\ (system_prompt' # system_prompt \/ tool_schemas' # tool_schemas)
                => (pc = "listing" /\ iteration = 0 /\ model_requests = <<>>)]_vars

\* Two model requests were made with a tool call answered between them.
C24_Witness ==
    /\ Len(model_requests) = 2
    /\ Len(tool_calls) = 1
    /\ tool_calls[1].iteration = 1
    /\ pc = "awaiting_model"
    /\ model_requests[1].system_instruction = model_requests[2].system_instruction
(***************************************************************************)
(* The tool catalog builder applied on its own.                            *)
(***************************************************************************)

\* `<param>: <type>, ...` for a non-empty parameter list.
RECURSIVE ParamList(_)
ParamList(schema) ==
    IF Len(schema) = 1 THEN schema[1][1] \o <<":"," ">> \o schema[1][2]
    ELSE schema[1][1] \o <<":"," ">> \o schema[1][2] \o <<","," ">> \o ParamList(Tail(schema))

\* The entry of one tool: `- <name>(<param>: <type>, ...) -> <description>`,
\* with `no parameters` for an empty parameter list and `No description` for
\* a missing or empty description.
ExpectedEntry(tool) ==
    LET schema == _extract_schema(tool) IN
    <<"-"," ">> \o tool.name \o <<"(">>
      \o (IF schema = <<>> THEN <<"n","o"," ","p","a","r","a","m","e","t","e","r","s">> ELSE ParamList(schema))
      \o <<")"," ","-",">"," ">>
      \o (IF tool.description \in {None, <<>>} THEN <<"N","o"," ","d","e","s","c","r","i","p","t","i","o","n">> ELSE tool.description)

\* The entries of the tools, one per line, in the order of the listing.
RECURSIVE EntriesText(_)
EntriesText(tools) ==
    IF tools = <<>> THEN <<>>
    ELSE IF Len(tools) = 1 THEN ExpectedEntry(tools[1])
    ELSE ExpectedEntry(tools[1]) \o <<"\n">> \o EntriesText(Tail(tools))

\* C21 (as stated): the builder never fails: for every listing, descriptors
\* without a schema, with a schema lacking `properties` or `required`, and
\* with malformed entries included, it returns a description and a schema
\* table, a tool without usable parameters getting the empty parameter list
\* and a parameter without usable type the type string.
C21_NeverFails ==
    call.fn = "_build_tools_description" =>
        \A k \in 1..Len(returned) :
            /\ ~returned[k].raised
            /\ Len(returned[k].value.schemas) <= Len(call.args[1])
            /\ \A t \in 1..Len(returned[k].value.schemas) :
                  \A p \in 1..Len(returned[k].value.schemas[t][2]) :
                      returned[k].value.schemas[t][2][p][2] # None

RECURSIVE TaggedTexts(_)
TaggedTexts(content) ==
    IF content = <<>> THEN <<>>
    ELSE IF Head(content).type = "text"
         THEN <<IF Head(content).text = None THEN <<>> ELSE Head(content).text>>
              \o TaggedTexts(Tail(content))
         ELSE TaggedTexts(Tail(content))

\* The texts, one per line.
RECURSIVE OnePerLine(_)
OnePerLine(texts) ==
    IF texts = <<>> THEN <<>>
    ELSE IF Len(texts) = 1 THEN texts[1]
    ELSE texts[1] \o <<"\n">> \o OnePerLine(Tail(texts))

LastResult == returned[1].value

\* No rectangle id is stored: the field is None or the empty text.
NoRectangleStored == SERVER_STATE.last_rectangle_id \in {None, <<>>}

MsgNoRectangle == <<"E","R","R","O","R",":"," ","N","o"," ","r","e","c","t","a","n","g","l","e"," ","c","o","n","t","e","x","t","."," ","C","a","l","l"," ","d","r","a","w","_","r","e","c","t","a","n","g","l","e"," ","f","i","r","s","t",".">>

\* C25: in every sequence of Keynote tool calls from the initial server
\* state, the stored rectangle id starts as None and changes only in a
\* draw_rectangle that returns RECTANGLE_OK; add_text_in_keynote returns
\* TEXT_OK only with a rectangle id stored, and with none stored it returns
\* exactly the no-rectangle-context error and runs no script.
C25_TextNeedsRectangle ==
    /\ SERVER_STATE.last_rectangle_id = None
    /\ [](call.fn = "add_text_in_keynote" =>
            /\ StartsWith(LastResult, <<"T","E","X","T","_","O","K">>) => ~NoRectangleStored
            /\ NoRectangleStored => LastResult = MsgNoRectangle /\ effects = <<>>)
    /\ [][SERVER_STATE'.last_rectangle_id # SERVER_STATE.last_rectangle_id =>
            /\ call'.fn = "draw_rectangle"
            /\ StartsWith(returned'[1].value, <<"R","E","C","T","A","N","G","L","E","_","O","K",":"," ","i","d","=">>)]_vars

\* add_text_in_keynote placed a text in the rectangle drawn before it.
C25_Witness ==
    /\ call.fn = "add_text_in_keynote"
    /\ StartsWith(LastResult, <<"T","E","X","T","_","O","K",":"," ","i","d","=","7",",">>)
    /\ SERVER_STATE.last_rectangle_id = <<"7">>
    /\ effects # <<>>

\* The widths and heights a size report may name.
ReportedNumbers == {0 - 3, 2, 7, 768, 1000, 1024, 1080, 1920}

\* The last call reported the slide as w wide and h high.
ReportsSize(w, h) ==
    \/ /\ call.fn = "open_keynote"
       /\ \/ LastResult = <<"K","E","Y","N","O","T","E","_","R","E","A","D","Y",":"," ","s","l","i","d","e","=","1",","," ","s","l","i","d","e","_","w","i","d","t","h","=">> \o IntToText(w) \o <<","," ","s","l","i","d","e","_","h","e","i","g","h","t","=">> \o IntToText(h)
          \/ StartsWith(LastResult, <<"K","E","Y","N","O","T","E","_","R","E","A","D","Y","_","W","I","T","H","_","W","A","R","N","I","N","G",":"," ","s","l","i","d","e","=","1",","," ","s","l","i","d","e","_","w","i","d","t","h","=">> \o IntToText(w) \o <<","," ","s","l","i","d","e","_","h","e","i","g","h","t","=">> \o IntToText(h) \o <<","," ","n","o","t","e","=">>)
    \/ /\ call.fn = "get_slide_size"
       /\ LastResult = <<"S","L","I","D","E","_","S","I","Z","E",":"," ","w","i","d","t","h","=">> \o IntToText(w) \o <<","," ","h","e","i","g","h","t","=">> \o IntToText(h)

\* The last call succeeded in reporting the slide size.
SizeReported ==
    /\ call.fn \in {"open_keynote", "get_slide_size"}
    /\ \/ StartsWith(LastResult, <<"K","E","Y","N","O","T","E","_","R","E","A","D","Y">>)
       \/ StartsWith(LastResult, <<"S","L","I","D","E","_","S","I","Z","E",":">>)

\* C26: a successful Keynote tool call records its result in the server
\* state: after open_keynote or get_slide_size succeeds, last_slide_dims
\* holds the width and height it reported; after draw_rectangle succeeds,
\* last_rectangle_id is the id in its RECTANGLE_OK result; and once a
\* draw_rectangle has succeeded, the next add_text_in_keynote runs its script
\* for the id stored last.
C26_ResultsRecorded ==
    /\ [](SizeReported =>
            \E w, h \in ReportedNumbers :
                /\ ReportsSize(w, h)
                /\ SERVER_STATE.last_slide_dims = [width |-> <<"int", w>>, height |-> <<"int", h>>])
    /\ [](call.fn = "draw_rectangle" /\ StartsWith(LastResult, <<"R","E","C","T","A","N","G","L","E","_","O","K",":">>) =>
            StartsWith(LastResult, <<"R","E","C","T","A","N","G","L","E","_","O","K",":"," ","i","d","=">> \o SERVER_STATE.last_rectangle_id \o <<","," ","x","=">>))
    /\ [][SERVER_STATE.last_rectangle_id # None /\ call'.fn = "add_text_in_keynote" =>
            /\ effects' # <<>>
            /\ effects'[1].args[1] = SERVER_STATE.last_rectangle_id]_vars

\* The process of a script run ended badly: the script file is missing, or
\* osascript exited with a non-zero status or ran out of time.
ProcessFailed(run) == run.process.kind \in {"missing", "exit", "timeout"}

\* The message of the exception run_applescript_file raises for such a run.
FailureMessage(run) ==
    CASE run.process.kind = "missing" -> <<"A","p","p","l","e","S","c","r","i","p","t"," ","f","i","l","e"," ","n","o","t"," ","f","o","u","n","d",":"," ">> \o run.script
      [] run.process.kind = "timeout" -> <<"A","p","p","l","e","S","c","r","i","p","t"," ","t","i","m","e","d"," ","o","u","t"," ","a","f","t","e","r"," ","1","5","s",":"," ">> \o run.script
      [] run.process.kind = "exit" ->
            IF \A i \in 1..Len(run.process.output) : run.process.output[i] \in {" ", "\n", "\t", "\r"}
            THEN <<"A","p","p","l","e","S","c","r","i","p","t"," ","f","a","i","l","e","d",":"," ">> \o run.script
            ELSE Strip(run.process.output)

\* Outputs that name no width and height, and outputs that are no character
\* count.
UnparsableSizes == {<<"o","o","p","s">>, <<"1","2","|","x">>, <<"i","n","f","|","1">>, <<>>}
UnparsableCounts == {<<"d","o","n","e">>, <<"n","a","n">>, <<"i","n","f">>}

\* The script run ended well and its output could not be read as a size.
SizeUnparsable(fn, run) ==
    /\ fn \in {"open_keynote", "get_slide_size"}
    /\ run.process.kind = "ok"
    /\ run.process.output \in UnparsableSizes

\* The script run ended well and its output could not be read as a count.
CountUnparsable(fn, run) ==
    /\ fn = "add_text_in_keynote"
    /\ run.process.kind = "ok"
    /\ run.process.output \in UnparsableCounts

\* The step is a tool call that returned an ERROR text and left
\* SERVER_STATE as it was.
ErrorReturnedStateKept ==
    /\ ~returned'[1].raised
    /\ StartsWith(returned'[1].value, <<"E","R","R","O","R",":"," ">>)
    /\ SERVER_STATE' = SERVER_STATE

\* C27 as stated: when the script run of a Keynote tool fails (non-zero
\* exit, timeout, missing script, or output that cannot be parsed), the tool
\* returns an ERROR text instead of raising and leaves SERVER_STATE
\* unchanged.
C27_AsStated ==
    [][effects' # <<>> /\ (\/ ProcessFailed(effects'[1])
                          \/ SizeUnparsable(call'.fn, effects'[1])
                          \/ CountUnparsable(call'.fn, effects'[1]))
        => ErrorReturnedStateKept]_vars

\* C27: when the script run of a Keynote tool fails (non-zero exit, timeout,
\* missing script, or, for open_keynote and get_slide_size, output that
\* cannot be parsed), the tool returns an ERROR text instead of raising and
\* leaves SERVER_STATE unchanged; for a failed process the text is ERROR:
\* followed by the runner's message.
C27_FailureIsErrorText ==
    [][effects' # <<>> =>
        /\ ProcessFailed(effects'[1]) \/ SizeUnparsable(call'.fn, effects'[1])
              => ErrorReturnedStateKept
        /\ ProcessFailed(effects'[1])
              => returned'[1].value = <<"E","R","R","O","R",":"," ">> \o FailureMessage(effects'[1])]_vars

\* The export script ran out of time after a rectangle was drawn: the tool
\* returned the runner's message and the rectangle id is still stored.
C27_Witness ==
    /\ call.fn = "screenshot_slide"
    /\ effects # <<>>
    /\ effects[1].process.kind = "timeout"
    /\ LastResult = <<"E","R","R","O","R",":"," ","A","p","p","l","e","S","c","r","i","p","t"," ","t","i","m","e","d"," ","o","u","t"," ","a","f","t","e","r"," ","1","5","s",":"," ","a","p","p","l","e","s","c","r","i","p","t","/","e","x","p","o","r","t","_","s","l","i","d","e","_","p","n","g",".","a","p","p","l","e","s","c","r","i","p","t">>
    /\ SERVER_STATE.last_rectangle_id = <<"7">>
    /\ SERVER_STATE.last_slide_dims.width = <<"int", 1920>>

\* The line a model writes to have `original` placed, and what the client
\* passes to the tool for it.
WrittenLine(original) ==
    <<"F","U","N","C","T","I","O","N","_","C","A","L","L",":"," ","a","d","d","_","t","e","x","t","_","i","n","_","k","e","y","n","o","t","e","|">> \o EscapedForCall(original)

PassedFor == [original \in OriginalTexts |-> ClientArgument(EscapedForCall(original))]

ParsedFor == [original \in OriginalTexts |-> parse_agent_line(WrittenLine(original))]

\* C28: pipe escaping round-trips.  For every original text without a broken
\* bar, written with each `|` replaced by a broken bar after `FUNCTION_CALL:
\* add_text_in_keynote|`: parse_agent_line yields one argument, the trimmed
\* written text with its broken bars kept, and when add_text_in_keynote is
\* called with it and runs its script, the script gets the rectangle id and,
\* as one argument, the trimmed original text with every `|` restored.
C28_PipeEscapingRoundTrips ==
    \A original \in OriginalTexts :
        /\ ~ParsedFor[original].raised
        /\ ParsedFor[original].value.name = <<"a","d","d","_","t","e","x","t","_","i","n","_","k","e","y","n","o","t","e">>
        /\ ParsedFor[original].value.arguments = <<Trimmed(EscapedForCall(original))>>
        /\ call.fn = "add_text_in_keynote" /\ call.args = <<PassedFor[original]>> /\ effects # <<>>
              => effects[1].args = <<SERVER_STATE.last_rectangle_id, Trimmed(original)>>

\* The text `Hello | world`, written with a broken bar, reached the script
\* with its bar restored.
C28_Witness ==
    /\ call.fn = "add_text_in_keynote"
    /\ call.args = <<<<"H","e","l","l","o"," ","¦"," ","w","o","r","l","d">>>>
    /\ call.args = <<PassedFor[<<"H","e","l","l","o"," ","|"," ","w","o","r","l","d">>]>>
    /\ effects # <<>>
    /\ effects[1].args[2] = <<"H","e","l","l","o"," ","|"," ","w","o","r","l","d">>
    /\ StartsWith(LastResult, <<"T","E","X","T","_","O","K",":"," ","i","d","=">>)

(***************************************************************************)
(* The Gmail server's contracts, under GmailSpec.                          *)
(***************************************************************************)

\* The keyword arguments and the environment of the last send_email call.
LastKwargs == call.args[1]
LastEnv == call.args[2]

\* The messages the last call handed to the Gmail service for sending.
SentMessages ==
    [i \in 1..Cardinality({j \in 1..Len(effects) : effects[j][1] = "send"}) |->
        effects[Nth({j \in 1..Len(effects) : effects[j][1] = "send"}, i)][2]]

\* The Gmail service is built and sends without an exception.
ServiceWorks(env) == env.build_error = None /\ env.send_error = None

\* The recipient holds an `@`.
HoldsAt(to) == to # None /\ Cardinality({i \in 1..Len(to) : to[i] = "@"}) > 0

\* C29: send_email called with to, subject, body and body_html (a recipient
\* with an `@`, a working Gmail service) returns EMAIL_SENT: to=<to>,
\* id=<message id> and sends one multipart/alternative message that holds a
\* text/plain part with the body and a text/html part with body_html.
C29_SendsBothParts ==
    /\ call.fn = "send_email"
    /\ KwNames(LastKwargs) = {<<"t","o">>, <<"s","u","b","j","e","c","t">>, <<"b","o","d","y">>, <<"b","o","d","y","_","h","t","m","l">>}
    /\ HoldsAt(KwValue(LastKwargs, <<"t","o">>))
    /\ ServiceWorks(LastEnv)
    => /\ ~returned[1].raised
       /\ StartsWith(returned[1].value, <<"E","M","A","I","L","_","S","E","N","T",":"," ","t","o","=">> \o KwValue(LastKwargs, <<"t","o">>) \o <<","," ","i","d","=">>)
       /\ Len(SentMessages) = 1
       /\ SentMessages[1][1] = <<"m","u","l","t","i","p","a","r","t","/","a","l","t","e","r","n","a","t","i","v","e">>
       /\ SentMessages[1][5] = <<<<<<"t","e","x","t","/","p","l","a","i","n">>, KwValue(LastKwargs, <<"b","o","d","y">>)>>,
                                 <<<<"t","e","x","t","/","h","t","m","l">>, KwValue(LastKwargs, <<"b","o","d","y","_","h","t","m","l">>)>>>>

DrewRectangle ==
    /\ call.fn = "draw_rectangle"
    /\ StartsWith(LastResult, <<"R","E","C","T","A","N","G","L","E","_","O","K">>)

\* A draw_rectangle has returned RECTANGLE_OK: the stored id is no longer
\* None.
RectangleDrawn == SERVER_STATE.last_rectangle_id # None

\* C35: once draw_rectangle has returned RECTANGLE_OK, no later
\* add_text_in_keynote returns the no-rectangle-context error, whatever id
\* the drawing script printed and whatever calls came in between.  The
\* first three conjuncts say that the stored id is other than None exactly
\* from the first draw_rectangle that returned RECTANGLE_OK on; the last
\* says that from then on add_text_in_keynote finds its context.
C35_ContextKept ==
    /\ ~RectangleDrawn
    /\ [](DrewRectangle => RectangleDrawn)
    /\ [][/\ RectangleDrawn => SERVER_STATE'.last_rectangle_id # None
          /\ ~RectangleDrawn /\ SERVER_STATE'.last_rectangle_id # None =>
                /\ call'.fn = "draw_rectangle"
                /\ StartsWith(returned'[1].value, <<"R","E","C","T","A","N","G","L","E","_","O","K">>)]_vars
    /\ [][RectangleDrawn /\ call'.fn = "add_text_in_keynote" =>
            returned'[1].value # MsgNoRectangle]_vars
(***************************************************************************)
(* The ends of a run.                                                      *)
(***************************************************************************)

\* The line the else clause of the loop writes.
MsgMaxIterations == <<"M","a","x"," ","i","t","e","r","a","t","i","o","n","s"," ","r","e","a","c","h","e","d"," ","w","i","t","h","o","u","t"," ","F","I","N","A","L","_","A","N","S","W","E","R">>

\* The line written when the final answer is seen.
MsgFinalAnswer == <<"A","g","e","n","t"," ","s","i","g","n","a","l","e","d"," ","F","I","N","A","L","_","A","N","S","W","E","R">>

\* Exhaustion was reported in the run log.
ExhaustionReported == \E i \in 1..Len(log) : log[i] = MsgMaxIterations

\* The final answer was reported in the run log.
FinalAnswerReported == \E i \in 1..Len(log) : log[i] = MsgFinalAnswer

\* The model lines seen so far, in order.
ModelLines == SelectSeq(history, LAMBDA t : t.role = "model")

(***************************************************************************)
(* C32: done and exhausted exclude each other and the last line seen       *)
(* decides: a final answer arriving in iteration max_iterations ends the   *)
(* run in done with no exhaustion reported, then and ever after;           *)
(* exhaustion is reported only in a run that ends in exhausted after all   *)
(* max_iterations iterations ended without the final answer.               *)
(***************************************************************************)
C32_DoneExcludesExhausted ==
    /\ [](~(FinalAnswerReported /\ ExhaustionReported))
    /\ [](pc = "done" <=> FinalAnswerReported)
    /\ [](pc = "exhausted" <=> ExhaustionReported)
    /\ [](pc = "done" => /\ ModelLines # <<>>
                         /\ IsFinalAnswer(ModelLines[Len(ModelLines)].text))
    /\ [](ExhaustionReported =>
            /\ iteration = CapOrZero
            /\ Len(ModelLines) = CapOrZero
            /\ \A i \in 1..Len(ModelLines) : ~IsFinalAnswer(ModelLines[i].text)
            /\ log[Len(log)] = MsgMaxIterations)
    /\ [][(/\ pc = "awaiting_model"
           /\ iteration = max_iterations
           /\ ModelTurnAppended
           /\ IsFinalAnswer(LastTurn(history').text))
            => (pc' = "done" /\ ~ExhaustionReported')]_vars
    /\ [][pc \notin {"done", "exhausted"}]_vars

\* The final answer arrived in the last permitted iteration, after an
\* iteration that did not end the run.
C32_Witness ==
    /\ pc = "done"
    /\ max_iterations = MaxIter
    /\ iteration = max_iterations
    /\ Len(ModelLines) = MaxIter
    /\ IsFinalAnswer(LastTurn(history).text)
    /\ ~ExhaustionReported
\* The line written once the tools were listed starts with this.
ToolsListedPrefix == <<"t","o","o","l","s"," ","l","i","s","t","e","d",":"," ">>

(***************************************************************************)
(* C33: with max_iterations <= 0 the loop body never runs: no model        *)
(* request and no tool call is made and history stays empty; once the      *)
(* session was opened and the tools were listed, the next step reports     *)
(* that the maximum was reached and ends the run in exhausted, so a run    *)
(* that ends without an exception ends there.                              *)
(***************************************************************************)
C33_NonPositiveCapRunsNoIteration ==
    /\ [](max_iterations <= 0 =>
            /\ model_requests = <<>>
            /\ tool_calls = <<>>
            /\ history = <<>>
            /\ iteration = 0
            /\ pc \notin {"awaiting_model", "awaiting_tool", "done"})
    /\ [](max_iterations <= 0 /\ pc \in Terminal /\ exception = "" =>
            /\ pc = "exhausted"
            /\ Len(log) = 2
            /\ StartsWith(log[1], ToolsListedPrefix)
            /\ log[2] = MsgMaxIterations
            /\ tool_schemas # <<>>
            /\ ~sessionOpen /\ ~logOpen)
    /\ [][(max_iterations <= 0 /\ pc = "loop") =>
            (pc' = "exhausted" /\ sessionOpen /\ ExhaustionReported')]_vars

\* A run started with a negative cap listed the tools and ended in exhausted.
C33_Witness ==
    /\ max_iterations < 0
    /\ pc = "exhausted"
    /\ StartsWith(log[1], ToolsListedPrefix)
    /\ ExhaustionReported
    /\ history = <<>>
(***************************************************************************)
(* C34: no raw argument is dropped or overwritten: for every schema and    *)
(* every list of raw arguments, the mapping handed to call_tool holds as   *)
(* many entries as the directive has raw arguments, also when the schema   *)
(* declares a parameter named arg<i> or lists one name more than once.     *)
(***************************************************************************)
C34_EveryArgumentKept ==
    (call.fn = "arguments" /\ returned # <<>>) =>
        Len(returned[1].value) = Len(call.args[1])
(***************************************************************************)
(* The run log as parse_log_line reads it.                                 *)
(***************************************************************************)

\* The lines of agent.log as load_log_entries splits them, for a run id.
LogFileLines(run_id) == SplitLines(LogFile(log, run_id, Len(log)))

\* The entry the i-th logged event is to be read back as.
EntryOf(run_id, i) ==
    <<TimestampAt(i) \o <<"Z">>,
      <<<<"c","l","i","e","n","t">>, <<"r","u","n","_","i","d","=">> \o run_id>>,
      log[i]>>

(***************************************************************************)
(* C31: every event the client logs occupies exactly one line of the run   *)
(* log, of the form `[<timestamp>Z][client][run_id=<id>] <message>`:       *)
(* the log holds as many lines as events were logged, and parse_log_line   *)
(* on the i-th line returns the i-th event's timestamp, the metadata       *)
(* (client, run_id=<id>) and its message.                                  *)
(***************************************************************************)
C31_OneParsableLinePerEvent ==
    \A run_id \in RunIds :
        /\ Len(LogFileLines(run_id)) = Len(log)
        /\ \A i \in 1..Len(log) :
              parse_log_line(LogFileLines(run_id)[i]) = EntryOf(run_id, i)

====
